---- MODULE Spec2Model ----
(***************************************************************************)
(* Model of the yagami telegram-client bridge: the bus callback            *)
(* (client.py make_handler), the router (handlers.py handle_event) and the *)
(* media delivery pipeline (handlers.py handle_download_complete with      *)
(* prepare_thumbnail, split_video and _safe_remove).                       *)
(*                                                                         *)
(* One behaviour is the handling of one bus message.  The environment      *)
(* (transport, ffprobe/ffmpeg, thumbnail fetch, os.remove) is chosen       *)
(* nondeterministically at each call.  `calls` is a history of the         *)
(* external calls the code made, in program order.                         *)
(***************************************************************************)
EXTENDS Integers, Sequences, FiniteSets, TLC

VARIABLES pc, subject, chat_id, data, fs, srcSize, target_chat, file_path,
          file_size, thumb_path, video_dims, duration_secs, parts, i, exc, outcome, caught,
          calls, removeFailed

\* how handle_event was entered: "bus" through the callback of client.py,
\* "direct" by a caller of handlers.handle_event
VARIABLES entry

\* client.py run(): the subscription loop and the bus callbacks
\*   rpc           position of run(): "subscribing", then "waiting"; at
\*                 shutdown "closing", "disconnecting", "finished", "exited"
\*   to_subscribe  the routes the loop has not reached yet
\*   loop_var      the loop variables <<subject, chat_id>> (<<>> before the loop)
\*   subs          the subscriptions made, in order: the subject subscribed
\*                 and the callback registered for it
\*   inbox         the message being handled by a callback, <<>> when none
\*   handled       one record per message published, in order
\*   escaped       the exception that left a bus callback, "none" when none
VARIABLES rpc, to_subscribe, loop_var, subs, inbox, handled, escaped

rvars == <<rpc, to_subscribe, loop_var, subs, inbox, handled, escaped>>

\* client.py on_admin_message: one message of the operator
\*   apc        position in on_admin_message
\*   chunks     how the text was put together (used by the properties only)
\*   text       event.message.text, a sequence of characters
\*   video_id   match.group(1), <<>> before the match
\*   replies    the event.reply calls made
\*   published  the nc.publish calls made
\*   aexc       the exception that left on_admin_message, "none" when none
VARIABLES apc, chunks, text, video_id, replies, published, aexc

avars == <<apc, chunks, text, video_id, replies, published, aexc>>

\* formatter.py: the formatters applied to one payload
\*   fpc     "input" before the formatters are applied, "formatted" after
\*   fdata   the payload; a key is <<>> when absent and <<v>> when present
\*   fcount  the argument of format_views, <<>> for None
\*   fout    what the formatters returned
\* The same variables hold the argument and the result of the other pure
\* functions looked at on their own: format_duration (fpc "seconds", then
\* "rendered"; fcount the seconds) and handlers.py _crop_to_ratio (fpc
\* "image", then "cropped"; fdata the image and target sizes).
VARIABLES fpc, fdata, fcount, fout

fvars == <<fpc, fdata, fcount, fout>>

\* handlers.py handle_download_complete: two invocations on one event loop
\*   cfs    the files on disk
\*   inv    the local state of each invocation
\*   clog   the file operations made, in order, with the invocation that
\*          made them (and, at shutdown, the steps of run() as task 0)
VARIABLES cfs, inv, clog

cvars == <<cfs, inv, clog>>

xvars == <<fvars, cvars>>

\* the variables the delivery of one message never changes
others == <<entry, rvars, avars, xvars>>

\* the variables of the delivery of one message
pvars == <<pc, subject, chat_id, data, fs, srcSize, target_chat, file_path,
           file_size, thumb_path, video_dims, duration_secs, parts, i, exc, outcome, caught,
           calls, removeFailed, entry>>

vars == <<pc, subject, chat_id, data, fs, srcSize, target_chat, file_path,
          file_size, thumb_path, video_dims, duration_secs, parts, i, exc, outcome, caught,
          calls, removeFailed, others>>

(***************************************************************************)
(* Bounds                                                                  *)
(***************************************************************************)
\* File sizes are drawn around the multiples 0..MaxMultiple of the ceiling.
MaxMultiple == 2

\* The number of bus messages published in one run of the router.
MaxMessages == 2

\* The number of chunks an operator message is made of.
MaxChunks == 3

(***************************************************************************)
(* Byte counts.  Python integers are unbounded; a count is kept as         *)
(* g * 10^9 + r with 0 <= r < 10^9 so that 4,000,000,000 is representable. *)
(***************************************************************************)
MAX_UPLOAD_BYTES == 1950000000

Bytes(g, r) == [g |-> g, r |-> r]

ToBytes(n) == Bytes(n \div 1000000000, n % 1000000000)

BytesAdd(x, y) ==
    LET s == x.r + y.r
    IN  Bytes(x.g + y.g + (s \div 1000000000), s % 1000000000)

\* x - y, for y <= x
BytesSub(x, y) ==
    IF x.r >= y.r THEN Bytes(x.g - y.g, x.r - y.r)
                  ELSE Bytes(x.g - y.g - 1, x.r + 1000000000 - y.r)

BytesLess(x, y) == x.g < y.g \/ (x.g = y.g /\ x.r < y.r)

BytesLeq(x, y) == x = y \/ BytesLess(x, y)

RECURSIVE BytesMul(_, _)
BytesMul(n, x) == IF n = 0 THEN Bytes(0, 0) ELSE BytesAdd(x, BytesMul(n - 1, x))

\* <<quotient, remainder>> of x / d by repeated subtraction
RECURSIVE BytesDivMod(_, _)
BytesDivMod(x, d) ==
    IF BytesLess(x, d) THEN <<0, x>>
    ELSE LET qr == BytesDivMod(BytesSub(x, d), d) IN <<qr[1] + 1, qr[2]>>

\* a plausible slip: floor division instead of math.ceil
NumPartsFloor(size) == BytesDivMod(size, ToBytes(MAX_UPLOAD_BYTES))[1]

\* handlers.py:301  num_parts = math.ceil(file_size / MAX_UPLOAD_BYTES)
NumParts(size) ==
    LET qr == BytesDivMod(size, ToBytes(MAX_UPLOAD_BYTES))
    IN  IF qr[2] = Bytes(0, 0) THEN qr[1] ELSE qr[1] + 1

\* a plausible slip: strict comparison
UseSingleUploadStrict(size) == BytesLess(size, ToBytes(MAX_UPLOAD_BYTES))

\* handlers.py:116  if file_size <= MAX_UPLOAD_BYTES
UseSingleUpload(size) == BytesLeq(size, ToBytes(MAX_UPLOAD_BYTES))

\* the sizes a downloaded file may have
Sizes ==
    LET M == ToBytes(MAX_UPLOAD_BYTES)
    IN  { BytesMul(k, M) : k \in 0..MaxMultiple }
         \cup { BytesAdd(BytesMul(k, M), Bytes(0, 1)) : k \in 0..MaxMultiple }
         \cup { BytesSub(BytesMul(k, M), Bytes(0, 1)) : k \in 1..MaxMultiple }
         \cup { Bytes(0, 1500), Bytes(1, 900000000), Bytes(2, 0), Bytes(4, 0) }

(***************************************************************************)
(* Paths.  base is the path string ("None" stands for Python None), part   *)
(* is the N of a "<base>.partN.mp4" name and 0 for any other file.         *)
(***************************************************************************)
Path(base) == [base |-> base, part |-> 0]

NonePath == Path("None")

SrcPath == Path("/dl/v.mp4")

GonePath == Path("/dl/gone.mp4")

TmpThumb == Path("/tmp/tmpthumb.jpg")

\* handlers.py:319  part_path = f"{file_path}.part{i + 1}.mp4"
PartPath(fp, n) == [base |-> fp.base, part |-> n]

\* Python truthiness of a path value: None and "" are falsy
Falsy(p) == p.base \in {"None", ""}

(***************************************************************************)
(* Payload.  A key is <<>> when absent and <<v>> when present.             *)
(***************************************************************************)
Get(field, default) == IF field = <<>> THEN default ELSE field[1]

Payloads ==
    [ success           : {<<>>, <<TRUE>>, <<FALSE>>},
      file_path         : {<<>>, <<Path("")>>, <<NonePath>>, <<SrcPath>>, <<GonePath>>},
      requester_chat_id : {<<>>, <<0>>, <<999>>},
      thumbnail         : {<<>>, <<"https://i.ytimg.com/t.jpg">>},
      message           : {<<>>, <<"Yagami started">>},
      status            : {<<>>, <<"completed">>} ]

(***************************************************************************)
(* Configuration and routes                                                *)
(***************************************************************************)
chat_id_likes == -100111

chat_id_watch_history == -100333

admin_user_id == 999

\* client.py:64-69
routes ==
    [ s \in {"youtube.watch", "youtube.likes", "download.complete", "system.health"} |->
        CASE s = "youtube.watch"     -> chat_id_watch_history
          [] s = "youtube.likes"     -> chat_id_likes
          [] s = "download.complete" -> chat_id_likes
          [] s = "system.health"     -> admin_user_id ]

(***************************************************************************)
(* History of external calls                                               *)
(***************************************************************************)
Call(op, path, chat, txt) ==
    [ op |-> op, path |-> path, chat |-> chat, text |-> txt,
      part |-> 0, total |-> 0, thumb |-> NonePath, attrs |-> <<>>,
      printed |-> <<>>, window |-> <<>>, res |-> "ok" ]

\* the indices of the calls of operation op
CallsOf(op) == { k \in 1..Len(calls) : calls[k].op = op }

(***************************************************************************)
(* Pure helpers of the pipeline                                            *)
(***************************************************************************)
\* a plausible slip in the other direction: the signature the call of
\* handlers.py:135 expects, format_video_caption(data, part=None, total=None)
format_video_caption_with_parts(kw) ==
    IF DOMAIN kw = {} THEN [raised |-> FALSE, part |-> 0, total |-> 0]
    ELSE [raised |-> FALSE, part |-> kw.part, total |-> kw.total]

\* formatter.py:68-72  def format_video_caption(data: dict) -> str
\* kw is the record of keyword arguments of the call beside data.  The
\* function declares no other parameter, so a call that passes any raises
\* TypeError; the caption it returns carries no part label.
format_video_caption(kw) ==
    IF DOMAIN kw = {} THEN [raised |-> FALSE, part |-> 0, total |-> 0]
    ELSE [raised |-> TRUE, part |-> 0, total |-> 0]

\* a probed pair (width, height): <<>> stands for (None, None)
Width(dims) == IF dims = <<>> THEN 0 ELSE dims[1]

Height(dims) == IF dims = <<>> THEN 0 ELSE dims[2]

\* Python `a or b` on integers, None standing as 0
Or(a, b) == IF a # 0 THEN a ELSE b

\* handlers.py:243-267  _make_video_attributes: the DocumentAttributeVideo
\* of the upload, <<>> when width or height is missing
make_video_attributes(w, h, duration) ==
    IF w # 0 /\ h # 0 THEN <<[w |-> w, h |-> h, duration |-> duration]>> ELSE <<>>

\* handlers.py:136-138  the attributes of a part upload
part_attrs(part_dims, part_dur, vdims, vdur) ==
    make_video_attributes(Or(Width(part_dims), Width(vdims)),
                          Or(Height(part_dims), Height(vdims)),
                          part_dur)

\* a plausible slip: `except OSError` is missing, the error of os.remove
\* leaves _safe_remove
SafeRemoveRaisedUncaught(f, path, fails) == ~Falsy(path) /\ path \in f /\ fails

\* handlers.py:344-347  try: os.remove(path) except OSError: log.warning;
\* TRUE when an exception leaves _safe_remove
SafeRemoveRaised(f, path, fails) == FALSE

\* handlers.py:340-347  _safe_remove: the files left on disk
SafeRemoveFs(f, path, fails) ==
    IF Falsy(path) \/ path \notin f THEN f
    ELSE IF fails THEN f ELSE f \ {path}

\* handlers.py:340-347  _safe_remove: the calls it makes
SafeRemoveCalls(f, path, fails) ==
    <<Call("_safe_remove", path, 0, "")>>
    \o (IF Falsy(path) THEN <<>> ELSE <<Call("os.path.exists", path, 0, "")>>)
    \o (IF Falsy(path) \/ path \notin f THEN <<>>
        ELSE <<[Call("os.remove", path, 0, "") EXCEPT !.res = IF fails THEN "raise" ELSE "ok"]>>)

\* os.remove was called by _safe_remove(path) and raised OSError
SafeRemoveFailed(f, path, fails) == ~Falsy(path) /\ path \in f /\ fails

\* handlers.py:198-219  what _get_video_dimensions returns: (None, None)
\* or the pair ffprobe printed
ProbedDims == {<<>>, <<1920, 1080>>}

\* handlers.py:222-240  what _get_video_duration returns: 0 or the seconds
\* ffprobe printed
ProbedDurations == {0, 212}

\* handlers.py:198-219, 222-240  the probers: the calls they make
ProbeCalls(f, path, what) ==
    (IF Falsy(path) THEN <<>> ELSE <<Call("os.path.exists", path, 0, "")>>)
    \o (IF Falsy(path) \/ path \notin f THEN <<>> ELSE <<Call("ffprobe", path, 0, what)>>)

(***************************************************************************)
(* Initial state: one message on a subscribed subject is delivered to the  *)
(* bus callback, or handle_event is called directly with any subject       *)
(***************************************************************************)
\* handlers.py:45-63  the subjects handle_event recognizes, and one it does not
Subjects == {"youtube.watch", "youtube.likes", "youtube.subscriptions",
             "download.complete", "system.health", "unknown.subject"}

\* the chat_id arguments of the direct calls
DirectChats == {chat_id_likes, chat_id_watch_history}

\* the router variables while the delivery of one message is looked at
RouterIdle ==
    /\ rpc = "waiting"
    /\ to_subscribe = {}
    /\ loop_var = <<>>
    /\ subs = <<>>
    /\ inbox = <<>>
    /\ handled = <<>>
    /\ escaped = "none"

\* the formatter variables while no payload is formatted
FormatIdle ==
    /\ fpc = "idle"
    /\ fdata = <<>>
    /\ fcount = <<>>
    /\ fout = <<>>

\* the variables of the pair of invocations while there is none
PairIdle ==
    /\ cfs = {}
    /\ inv = <<>>
    /\ clog = <<>>

\* the admin watcher variables while no operator message is looked at
AdminIdle ==
    /\ apc = "idle"
    /\ chunks = <<>>
    /\ text = <<>>
    /\ video_id = <<>>
    /\ replies = <<>>
    /\ published = <<>>
    /\ aexc = "none"

Init ==
    /\ RouterIdle
    /\ AdminIdle
    /\ FormatIdle
    /\ PairIdle
    /\ entry \in {"bus", "direct"}
    /\ pc = IF entry = "bus" THEN "handler" ELSE "handle_event"
    /\ subject \in IF entry = "bus" THEN DOMAIN routes ELSE Subjects
    /\ chat_id \in IF entry = "bus" THEN {routes[subject]} ELSE DirectChats
    /\ data \in Payloads
    /\ fs = {SrcPath}
    /\ srcSize \in IF subject = "download.complete" THEN Sizes ELSE {Bytes(0, 1500)}
    /\ target_chat = 0
    /\ file_path = NonePath
    /\ file_size = Bytes(0, 0)
    /\ thumb_path = NonePath
    /\ video_dims = <<>>
    /\ duration_secs = 0
    /\ parts = <<>>
    /\ i = 0
    /\ exc = "none"
    /\ outcome = "none"
    /\ caught = "none"
    /\ calls = <<>>
    /\ removeFailed = FALSE

(***************************************************************************)
(* client.py make_handler / handlers.py handle_event                       *)
(***************************************************************************)
\* client.py:72-75  the bus callback decodes the message (json.loads raises
\* when the bytes are not valid JSON) and calls handle_event
handler ==
    /\ pc = "handler"
    /\ UNCHANGED others
    /\ \E valid \in BOOLEAN :
         /\ pc' = IF valid THEN "handle_event" ELSE "handler_exit"
         /\ exc' = IF valid THEN "none" ELSE "JSONDecodeError"
    /\ UNCHANGED <<subject, chat_id, data, fs, srcSize, target_chat, file_path,
                   file_size, thumb_path, video_dims, duration_secs, parts, i, outcome,
                   caught, calls, removeFailed>>

\* a plausible slip: the download branch is a plain `else`, so any subject
\* that is not a notification subject is handled as download.complete
handle_event_else_download ==
    /\ pc = "handle_event"
    /\ UNCHANGED others
    /\ pc' = IF subject \in {"youtube.watch", "youtube.likes",
                             "youtube.subscriptions", "system.health"}
             THEN "notify" ELSE "hdc"
    /\ UNCHANGED <<subject, chat_id, data, fs, srcSize, target_chat, file_path,
                   file_size, thumb_path, video_dims, duration_secs, parts, i, exc, outcome,
                   caught, calls, removeFailed>>

\* handlers.py:45-66  dispatch on the subject
handle_event ==
    /\ pc = "handle_event"
    /\ UNCHANGED others
    /\ pc' = IF subject \in {"youtube.watch", "youtube.likes",
                             "youtube.subscriptions", "system.health"}
             THEN "notify"
             ELSE IF subject = "download.complete" THEN "hdc" ELSE "handler_exit"
    /\ UNCHANGED <<subject, chat_id, data, fs, srcSize, target_chat, file_path,
                   file_size, thumb_path, video_dims, duration_secs, parts, i, exc, outcome,
                   caught, calls, removeFailed>>

\* a plausible slip: data.get("message") without the default text
NotifyTextNoDefault(subj, d) ==
    CASE subj = "youtube.watch"         -> "Watched"
      [] subj = "youtube.likes"         -> "Liked"
      [] subj = "youtube.subscriptions" -> "Subscription"
      [] subj = "system.health"         -> Get(d.message, "None")

\* handlers.py:46, 51, 56, 64  the text of the notification
NotifyText(subj, d) ==
    CASE subj = "youtube.watch"         -> "Watched"
      [] subj = "youtube.likes"         -> "Liked"
      [] subj = "youtube.subscriptions" -> "Subscription"
      [] subj = "system.health"         -> Get(d.message, "Health check received")

\* handlers.py:46-47, 51-52, 56-57, 64-65  await tg.send_message(chat_id, text)
notify ==
    /\ pc = "notify"
    /\ UNCHANGED others
    /\ \E res \in {"ok", "raise"} :
         /\ calls' = Append(calls, [Call("send_message", NonePath, chat_id,
                                         NotifyText(subject, data))
                                      EXCEPT !.res = res])
         /\ exc' = IF res = "ok" THEN "none" ELSE "TransportError"
    /\ pc' = "handler_exit"
    /\ UNCHANGED <<subject, chat_id, data, fs, srcSize, target_chat, file_path,
                   file_size, thumb_path, video_dims, duration_secs, parts, i, outcome,
                   caught, removeFailed>>

\* a plausible slip: the callback delivers the event a second time after a
\* first failure
handler_exit_retry ==
    /\ pc = "handler_exit"
    /\ UNCHANGED others
    /\ entry = "bus"
    /\ caught' = exc
    /\ exc' = "none"
    /\ pc' = IF exc # "none" /\ caught = "none" THEN "handle_event" ELSE "done"
    /\ UNCHANGED <<subject, chat_id, data, fs, srcSize, target_chat, file_path,
                   file_size, thumb_path, video_dims, duration_secs, parts, i,
                   outcome, calls, removeFailed>>

\* client.py:76-77  except Exception: log.exception(...)
handler_exit ==
    /\ pc = "handler_exit"
    /\ UNCHANGED others
    /\ entry = "bus"
    /\ caught' = exc
    /\ exc' = "none"
    /\ pc' = "done"
    /\ UNCHANGED <<subject, chat_id, data, fs, srcSize, target_chat, file_path,
                   file_size, thumb_path, video_dims, duration_secs, parts, i, outcome,
                   calls, removeFailed>>

(***************************************************************************)
(* handlers.py handle_download_complete                                    *)
(***************************************************************************)
\* a plausible slip: a missing success key counts as success
SuccessFlagDefaultTrue(d) == Get(d.success, TRUE)

\* handlers.py:86  data.get("success", False)
SuccessFlag(d) == Get(d.success, FALSE)

\* handlers.py:83  target_chat = data.get("requester_chat_id") or chat_id
TargetChat(d, default) ==
    LET r == Get(d.requester_chat_id, 0) IN IF r # 0 THEN r ELSE default

\* handlers.py:80-86  resolve the destination, test the success flag
hdc_entry ==
    /\ pc = "hdc"
    /\ UNCHANGED others
    /\ target_chat' = TargetChat(data, chat_id)
    /\ pc' = IF ~SuccessFlag(data) THEN "notice_failed" ELSE "check_file"
    /\ UNCHANGED <<subject, chat_id, data, fs, srcSize, file_path, file_size,
                   thumb_path, video_dims, duration_secs, parts, i, exc, outcome, caught,
                   calls, removeFailed>>

\* handlers.py:87-93  await tg.send_message(target_chat, "Download failed..."); return
notice_failed ==
    /\ pc = "notice_failed"
    /\ UNCHANGED others
    /\ \E res \in {"ok", "raise"} :
         /\ calls' = Append(calls, [Call("send_message", NonePath, target_chat,
                                         "Download failed") EXCEPT !.res = res])
         /\ exc' = IF res = "ok" THEN "none" ELSE "TransportError"
         /\ outcome' = IF res = "ok" THEN "returned" ELSE "TransportError"
    /\ pc' = "handler_exit"
    /\ UNCHANGED <<subject, chat_id, data, fs, srcSize, target_chat, file_path,
                   file_size, thumb_path, video_dims, duration_secs, parts, i, caught,
                   removeFailed>>

\* a plausible slip: only the emptiness of file_path is tested, not the
\* existence of the file
check_file_no_exists ==
    /\ pc = "check_file"
    /\ UNCHANGED others
    /\ LET fp == Get(data.file_path, Path("")) IN
         /\ file_path' = fp
         /\ calls' = calls
         /\ pc' = IF Falsy(fp) THEN "notice_missing" ELSE "getsize"
    /\ UNCHANGED <<subject, chat_id, data, fs, srcSize, target_chat, file_size,
                   thumb_path, video_dims, duration_secs, parts, i, exc, outcome, caught,
                   removeFailed>>

\* handlers.py:95-96  file_path = data.get("file_path", ""); exists test
check_file ==
    /\ pc = "check_file"
    /\ UNCHANGED others
    /\ LET fp == Get(data.file_path, Path("")) IN
         /\ file_path' = fp
         /\ calls' = calls \o (IF Falsy(fp) THEN <<>>
                               ELSE <<Call("os.path.exists", fp, 0, "")>>)
         /\ pc' = IF Falsy(fp) \/ fp \notin fs THEN "notice_missing" ELSE "getsize"
    /\ UNCHANGED <<subject, chat_id, data, fs, srcSize, target_chat, file_size,
                   thumb_path, video_dims, duration_secs, parts, i, exc, outcome, caught,
                   removeFailed>>

\* a plausible slip: the `return` after the notice is missing, so the
\* invocation goes on to the upload
notice_missing_no_return ==
    /\ pc = "notice_missing"
    /\ UNCHANGED others
    /\ \E res \in {"ok", "raise"} :
         /\ calls' = Append(calls, [Call("send_message", file_path, target_chat,
                                         "File not found") EXCEPT !.res = res])
         /\ exc' = IF res = "ok" THEN "none" ELSE "TransportError"
         /\ outcome' = IF res = "ok" THEN outcome ELSE "TransportError"
         /\ pc' = IF res = "ok" THEN "getsize" ELSE "handler_exit"
    /\ UNCHANGED <<subject, chat_id, data, fs, srcSize, target_chat, file_path,
                   file_size, thumb_path, video_dims, duration_secs, parts, i, caught,
                   removeFailed>>

\* handlers.py:97-99  await tg.send_message(target_chat, "File not found..."); return
notice_missing ==
    /\ pc = "notice_missing"
    /\ UNCHANGED others
    /\ \E res \in {"ok", "raise"} :
         /\ calls' = Append(calls, [Call("send_message", file_path, target_chat,
                                         "File not found") EXCEPT !.res = res])
         /\ exc' = IF res = "ok" THEN "none" ELSE "TransportError"
         /\ outcome' = IF res = "ok" THEN "returned" ELSE "TransportError"
    /\ pc' = "handler_exit"
    /\ UNCHANGED <<subject, chat_id, data, fs, srcSize, target_chat, file_path,
                   file_size, thumb_path, video_dims, duration_secs, parts, i, caught,
                   removeFailed>>

\* handlers.py:101  file_size = os.path.getsize(file_path)
getsize ==
    /\ pc = "getsize"
    /\ UNCHANGED others
    /\ file_size' = srcSize
    /\ calls' = Append(calls, Call("os.path.getsize", file_path, 0, ""))
    /\ pc' = "thumbnail"
    /\ UNCHANGED <<subject, chat_id, data, fs, srcSize, target_chat, file_path,
                   thumb_path, video_dims, duration_secs, parts, i, exc, outcome, caught,
                   removeFailed>>

\* handlers.py:106, 159-195  thumb_path = prepare_thumbnail(url, file_path)
\* how: "fetch_fail"   urlretrieve raised, no file written
\*      "fetch_partial" urlretrieve raised after it wrote the file
\*      "decode_fail"  the image was downloaded, PIL raised
\*      "ok"           the thumbnail was written to the temporary path
prepare_thumbnail ==
    /\ pc = "thumbnail"
    /\ UNCHANGED others
    /\ IF Get(data.thumbnail, "") = ""
       THEN /\ thumb_path' = NonePath
            /\ UNCHANGED <<fs, calls>>
       ELSE \E how \in {"fetch_fail", "fetch_partial", "decode_fail", "ok"} :
            /\ thumb_path' = IF how = "ok" THEN TmpThumb ELSE NonePath
            /\ fs' = IF how = "fetch_fail" THEN fs ELSE fs \cup {TmpThumb}
            /\ calls' = calls
                 \o <<[Call("urlretrieve", TmpThumb, 0, "")
                         EXCEPT !.res = IF how \in {"fetch_fail", "fetch_partial"}
                                        THEN "raise" ELSE "ok"]>>
                 \o (IF how \in {"fetch_fail", "fetch_partial"} THEN <<>>
                     ELSE ProbeCalls(fs, file_path, "dims"))
    /\ pc' = "probe"
    /\ UNCHANGED <<subject, chat_id, data, srcSize, target_chat, file_path,
                   file_size, video_dims, duration_secs, parts, i, exc, outcome, caught,
                   removeFailed>>

\* handlers.py:111-113  probe width/height and duration of the source
probe_source ==
    /\ pc = "probe"
    /\ UNCHANGED others
    /\ \E dims \in ProbedDims, dur \in ProbedDurations :
         /\ video_dims' = dims
         /\ duration_secs' = dur
    /\ calls' = calls \o ProbeCalls(fs, file_path, "dims")
                      \o ProbeCalls(fs, file_path, "duration")
    /\ pc' = "try"
    /\ UNCHANGED <<subject, chat_id, data, fs, srcSize, target_chat, file_path,
                   file_size, thumb_path, parts, i, exc, outcome, caught,
                   removeFailed>>

\* a plausible slip: the upload is not inside try/finally, so an exception
\* of send_file leaves the function without the cleanup
send_single_no_finally ==
    /\ pc = "try"
    /\ UNCHANGED others
    /\ UseSingleUpload(file_size)
    /\ \E res \in {"ok", "raise"} :
         /\ calls' = Append(calls, [Call("send_file", file_path, target_chat, "")
                                      EXCEPT !.thumb = thumb_path,
                                             !.attrs = make_video_attributes(
                                                 Width(video_dims), Height(video_dims),
                                                 duration_secs),
                                             !.res = res])
         /\ exc' = IF res = "ok" THEN "none" ELSE "TransportError"
         /\ outcome' = IF res = "ok" THEN outcome ELSE "TransportError"
         /\ pc' = IF res = "ok" THEN "finally" ELSE "handler_exit"
    /\ UNCHANGED <<subject, chat_id, data, fs, srcSize, target_chat, file_path,
                   file_size, thumb_path, video_dims, duration_secs, parts, i, caught,
                   removeFailed>>

\* handlers.py:116-127  single-file branch: caption, await tg.send_file(...)
send_single ==
    /\ pc = "try"
    /\ UNCHANGED others
    /\ UseSingleUpload(file_size)
    /\ LET cap == format_video_caption(<<>>) IN
       IF cap.raised
       THEN /\ exc' = "TypeError"
            /\ UNCHANGED calls
       ELSE \E res \in {"ok", "raise"} :
            /\ calls' = Append(calls, [Call("send_file", file_path, target_chat, "")
                                         EXCEPT !.part = cap.part, !.total = cap.total,
                                                !.thumb = thumb_path,
                                                !.attrs = make_video_attributes(
                                                    Width(video_dims), Height(video_dims),
                                                    duration_secs),
                                                !.res = res])
            /\ exc' = IF res = "ok" THEN "none" ELSE "TransportError"
    /\ pc' = "finally"
    /\ UNCHANGED <<subject, chat_id, data, fs, srcSize, target_chat, file_path,
                   file_size, thumb_path, video_dims, duration_secs, parts, i, outcome, caught,
                   removeFailed>>

\* a plausible slip: `if` ... `if` instead of `if` ... `else`, so the
\* segmenter also runs after the single upload
split_video_unconditional ==
    /\ pc \in {"try", "finally"}
    /\ UNCHANGED others
    /\ pc = "try" => ~UseSingleUpload(file_size)
    /\ \A k \in 1..Len(calls) : calls[k].op # "split_video"
    /\ LET n == NumParts(srcSize) IN
         /\ calls' = calls \o <<Call("split_video", file_path, 0, ""),
                                Call("os.path.getsize", file_path, 0, ""),
                                Call("ffprobe", file_path, 0, "duration")>>
                           \o [k \in 1..n |->
                                 [Call("ffmpeg", PartPath(file_path, k), 0, "")
                                    EXCEPT !.part = k, !.total = n]]
         /\ fs' = fs \cup { PartPath(file_path, k) : k \in 1..n }
         /\ parts' = [k \in 1..n |-> PartPath(file_path, k)]
         /\ i' = 1
         /\ pc' = "loop"
    /\ UNCHANGED <<subject, chat_id, data, srcSize, target_chat, file_path,
                   file_size, thumb_path, video_dims, duration_secs, exc, outcome, caught,
                   removeFailed>>

\* handlers.py:304-314  the total duration ffprobe prints for the source, in
\* seconds: none that float() parses, zero, or a positive number
SplitDurations == {0, 7}

\* handlers.py:315  segment_duration = duration / num_parts, as the
\* fraction <<numerator, denominator>>
segment_duration(duration, num_parts) == <<duration, num_parts>>

\* a plausible slip: the window of part k starts at k * segment_duration
segment_start_one_based(k, duration, num_parts) == <<k * duration, num_parts>>

\* handlers.py:320  start = i * segment_duration, for part k = i + 1
segment_start(k, duration, num_parts) == <<(k - 1) * duration, num_parts>>

\* handlers.py:322-333  ffmpeg -ss start -i file_path -t segment_duration
Window(k, duration, num_parts) ==
    [ ss |-> segment_start(k, duration, num_parts),
      t  |-> segment_duration(duration, num_parts) ]

\* handlers.py:130-132, 294-337  parts = split_video(file_path)
\* probed: ffprobe printed a duration that float() parses
\* made:   the part numbers whose ffmpeg run wrote its output file
split_video ==
    /\ pc = "try"
    /\ UNCHANGED others
    /\ ~UseSingleUpload(file_size)
    /\ LET n == NumParts(srcSize) IN
       \E probed \in BOOLEAN :
         IF ~probed
         THEN /\ calls' = calls \o <<Call("split_video", file_path, 0, ""),
                                     Call("os.path.getsize", file_path, 0, ""),
                                     [Call("ffprobe", file_path, 0, "duration")
                                        EXCEPT !.res = "raise"]>>
              /\ exc' = "ValueError"
              /\ pc' = "finally"
              /\ UNCHANGED <<fs, parts, i>>
         ELSE \E made \in SUBSET (1..n), duration \in SplitDurations :
              /\ calls' = calls \o <<Call("split_video", file_path, 0, ""),
                                     Call("os.path.getsize", file_path, 0, ""),
                                     [Call("ffprobe", file_path, 0, "duration")
                                        EXCEPT !.printed = <<duration>>]>>
                                \o [k \in 1..n |->
                                      [Call("ffmpeg", PartPath(file_path, k), 0, "")
                                         EXCEPT !.part = k, !.total = n,
                                                !.window = Window(k, duration, n),
                                                !.res = IF k \in made THEN "ok" ELSE "raise"]]
              /\ fs' = fs \cup { PartPath(file_path, k) : k \in made }
              /\ parts' = [k \in 1..n |-> PartPath(file_path, k)]
              /\ i' = 1
              /\ exc' = "none"
              /\ pc' = "loop"
    /\ UNCHANGED <<subject, chat_id, data, srcSize, target_chat, file_path,
                   file_size, thumb_path, video_dims, duration_secs, outcome, caught,
                   removeFailed>>

\* a plausible slip: the caption error is swallowed inside the loop and the
\* same part is tried again
upload_parts_retry ==
    /\ pc = "loop"
    /\ UNCHANGED others
    /\ IF i > Len(parts)
       THEN /\ pc' = "finally"
            /\ UNCHANGED exc
       ELSE /\ pc' = "loop"
            /\ exc' = "TypeError"
    /\ UNCHANGED <<subject, chat_id, data, fs, srcSize, target_chat, file_path,
                   file_size, thumb_path, video_dims, duration_secs, parts, i,
                   outcome, caught, calls, removeFailed>>

\* handlers.py:134-152  one step of `for i, part_path in enumerate(parts, 1)`
upload_parts ==
    /\ pc = "loop"
    /\ UNCHANGED others
    /\ IF i > Len(parts)
       THEN /\ pc' = "finally"
            /\ UNCHANGED <<fs, i, exc, calls, removeFailed>>
       ELSE LET cap == format_video_caption([part |-> i, total |-> Len(parts)]) IN
            IF cap.raised
            THEN /\ exc' = "TypeError"
                 /\ pc' = "finally"
                 /\ UNCHANGED <<fs, i, calls, removeFailed>>
            ELSE \E res \in {"ok", "raise"}, fails \in BOOLEAN,
                    part_dims \in ProbedDims, part_dur \in ProbedDurations :
                 LET sent == calls \o ProbeCalls(fs, parts[i], "dims")
                                   \o ProbeCalls(fs, parts[i], "duration")
                                   \o <<[Call("send_file", parts[i], target_chat, "")
                                           EXCEPT !.part = cap.part, !.total = cap.total,
                                                  !.thumb = thumb_path,
                                                  !.attrs = part_attrs(part_dims, part_dur,
                                                               video_dims, duration_secs),
                                                  !.res = res]>>
                 IN  IF res = "raise"
                     THEN /\ calls' = sent
                          /\ exc' = "TransportError"
                          /\ pc' = "finally"
                          /\ UNCHANGED <<fs, i, removeFailed>>
                     ELSE /\ calls' = sent \o SafeRemoveCalls(fs, parts[i], fails)
                          /\ fs' = SafeRemoveFs(fs, parts[i], fails)
                          /\ removeFailed' = (removeFailed \/ SafeRemoveFailed(fs, parts[i], fails))
                          /\ i' = i + 1
                          /\ pc' = "loop"
                          /\ UNCHANGED exc
    /\ UNCHANGED <<subject, chat_id, data, srcSize, target_chat, file_path,
                   file_size, thumb_path, video_dims, duration_secs, parts, outcome, caught>>

\* a plausible slip: the cleanup block swallows the pending exception
\* (`except Exception: pass` / a `return` inside finally)
finally_swallow ==
    /\ pc = "finally"
    /\ UNCHANGED others
    /\ \E f1 \in BOOLEAN, f2 \in BOOLEAN :
         LET fs1 == SafeRemoveFs(fs, file_path, f1) IN
         /\ fs' = SafeRemoveFs(fs1, thumb_path, f2)
         /\ calls' = calls \o SafeRemoveCalls(fs, file_path, f1)
                           \o SafeRemoveCalls(fs1, thumb_path, f2)
         /\ removeFailed' = (removeFailed \/ SafeRemoveFailed(fs, file_path, f1)
                                          \/ SafeRemoveFailed(fs1, thumb_path, f2))
    /\ outcome' = "returned"
    /\ exc' = "none"
    /\ pc' = "handler_exit"
    /\ UNCHANGED <<subject, chat_id, data, srcSize, target_chat, file_path,
                   file_size, thumb_path, video_dims, duration_secs, parts, i, caught>>

\* handlers.py:153-156  finally: _safe_remove(file_path); _safe_remove(thumb_path)
\* then the pending exception, if any, propagates to the caller
finally ==
    /\ pc = "finally"
    /\ UNCHANGED others
    /\ \E f1 \in BOOLEAN, f2 \in BOOLEAN :
         LET fs1 == SafeRemoveFs(fs, file_path, f1) IN
         IF SafeRemoveRaised(fs, file_path, f1)
         THEN /\ fs' = fs1
              /\ calls' = calls \o SafeRemoveCalls(fs, file_path, f1)
              /\ removeFailed' = TRUE
              /\ exc' = "OSError"
              /\ outcome' = "OSError"
         ELSE /\ fs' = SafeRemoveFs(fs1, thumb_path, f2)
              /\ calls' = calls \o SafeRemoveCalls(fs, file_path, f1)
                                \o SafeRemoveCalls(fs1, thumb_path, f2)
              /\ removeFailed' = (removeFailed \/ SafeRemoveFailed(fs, file_path, f1)
                                               \/ SafeRemoveFailed(fs1, thumb_path, f2))
              /\ exc' = IF SafeRemoveRaised(fs1, thumb_path, f2) THEN "OSError" ELSE exc
              /\ outcome' = IF SafeRemoveRaised(fs1, thumb_path, f2) THEN "OSError"
                            ELSE IF exc = "none" THEN "returned" ELSE exc
    /\ pc' = "handler_exit"
    /\ UNCHANGED <<subject, chat_id, data, srcSize, target_chat, file_path,
                   file_size, thumb_path, video_dims, duration_secs, parts, i, caught>>

Next ==
    \/ handler
    \/ handle_event
    \/ notify
    \/ handler_exit
    \/ hdc_entry
    \/ notice_failed
    \/ check_file
    \/ notice_missing
    \/ getsize
    \/ prepare_thumbnail
    \/ probe_source
    \/ send_single
    \/ split_video
    \/ upload_parts
    \/ finally
    
Spec == Init /\ [][Next]_vars

\* every external call returns or raises, and the interpreter goes on with
\* the next statement: a step that can be taken is taken
FairSpec == Spec /\ WF_vars(Next)

(***************************************************************************)
(* client.py run(): subscriptions and bus callbacks.  Here handle_event is  *)
(* seen from its caller: it is called with a subject and a chat_id and      *)
(* returns or raises; what it does inside is the subject of Spec.           *)
(***************************************************************************)
\* spec.md section 6: the subjects published on the bus for this service
ConsumedSubjects == {"youtube.watch", "youtube.likes", "youtube.subscriptions",
                     "download.complete", "system.health"}

\* the exceptions handle_event can raise (the values of exc in Spec)
HandleEventRaises == {"TransportError", "TypeError", "ValueError"}

\* a plausible slip: no factory, the callback reads the loop variables of
\* run() when it is called
HandlerArgsLateBound(h, lv) == [subject |-> lv[1], chat_id |-> lv[2]]

\* client.py:71-78  make_handler(subject, chat_id) returns a callback that
\* closes over its own parameters: the arguments it passes to handle_event
HandlerArgs(h, lv) == [subject |-> h.subject, chat_id |-> h.chat_id]

\* client.py:71  the callback make_handler(subject, chat_id) creates
make_handler(subj, cid) == [subject |-> subj, chat_id |-> cid]

\* the variables of the delivery of one message while none is looked at
PipelineIdle ==
    /\ entry = "bus"
    /\ pc = "router"
    /\ subject = "none"
    /\ chat_id = 0
    /\ data = [success |-> <<>>, file_path |-> <<>>, requester_chat_id |-> <<>>,
               thumbnail |-> <<>>, message |-> <<>>, status |-> <<>>]
    /\ fs = {}
    /\ srcSize = Bytes(0, 0)
    /\ target_chat = 0
    /\ file_path = NonePath
    /\ file_size = Bytes(0, 0)
    /\ thumb_path = NonePath
    /\ video_dims = <<>>
    /\ duration_secs = 0
    /\ parts = <<>>
    /\ i = 0
    /\ exc = "none"
    /\ outcome = "none"
    /\ caught = "none"
    /\ calls = <<>>
    /\ removeFailed = FALSE

RouterInit ==
    /\ PipelineIdle
    /\ AdminIdle
    /\ FormatIdle
    /\ PairIdle
    /\ rpc = "subscribing"
    /\ to_subscribe = DOMAIN routes
    /\ loop_var = <<>>
    /\ subs = <<>>
    /\ inbox = <<>>
    /\ handled = <<>>
    /\ escaped = "none"

\* client.py:80-82  one iteration of `for subject, chat_id in routes.items()`:
\* await nc.subscribe(subject, cb=make_handler(subject, chat_id))
subscribe ==
    /\ rpc = "subscribing"
    /\ to_subscribe # {}
    /\ \E s \in to_subscribe :
         /\ loop_var' = <<s, routes[s]>>
         /\ subs' = Append(subs, [on |-> s, cb |-> make_handler(s, routes[s])])
         /\ to_subscribe' = to_subscribe \ {s}
    /\ UNCHANGED <<rpc, inbox, handled, escaped, pvars, avars, xvars>>

\* client.py:116-118  the loop is over, run() waits for events
wait_for_events ==
    /\ rpc = "subscribing"
    /\ to_subscribe = {}
    /\ rpc' = "waiting"
    /\ UNCHANGED <<to_subscribe, loop_var, subs, inbox, handled, escaped, pvars, avars, xvars>>

\* a message is published on one of the consumed subjects; the bus hands it
\* to the callback subscribed to that subject and drops it when there is none
publish ==
    /\ rpc = "waiting"
    /\ inbox = <<>>
    /\ Len(handled) < MaxMessages
    /\ \E s \in ConsumedSubjects, valid \in BOOLEAN :
         IF \E k \in 1..Len(subs) : subs[k].on = s
         THEN /\ inbox' = <<[on |-> s, valid |-> valid]>>
              /\ UNCHANGED handled
         ELSE /\ handled' = Append(handled,
                    [on |-> s, valid |-> valid, received |-> FALSE,
                     called |-> FALSE, subject |-> "none", chat_id |-> 0,
                     raised |-> "none", caught |-> "none"])
              /\ UNCHANGED inbox
    /\ UNCHANGED <<rpc, to_subscribe, loop_var, subs, escaped, pvars, avars, xvars>>

\* a plausible slip: the except clause names only the JSON error, any
\* other exception leaves the callback
bus_callback_narrow_except ==
    /\ rpc = "waiting"
    /\ inbox # <<>>
    /\ LET m == inbox[1]
           h == (CHOOSE k \in 1..Len(subs) : subs[k].on = m.on)
           args == HandlerArgs(subs[h].cb, loop_var)
       IN  \E r \in {"none"} \cup HandleEventRaises :
             LET raised == IF m.valid THEN r ELSE "JSONDecodeError"
                 got == IF raised = "JSONDecodeError" THEN raised ELSE "none"
             IN  /\ handled' = Append(handled,
                       [on |-> m.on, valid |-> m.valid, received |-> TRUE,
                        called |-> m.valid,
                        subject |-> IF m.valid THEN args.subject ELSE "none",
                        chat_id |-> IF m.valid THEN args.chat_id ELSE 0,
                        raised |-> raised, caught |-> got])
                 /\ escaped' = IF raised = got THEN "none" ELSE raised
    /\ inbox' = <<>>
    /\ UNCHANGED <<rpc, to_subscribe, loop_var, subs, pvars, avars, xvars>>

\* client.py:72-77  the callback: decode the message, call handle_event with
\* the pair the callback was made with, catch and log any Exception
bus_callback ==
    /\ rpc = "waiting"
    /\ inbox # <<>>
    /\ LET m == inbox[1]
           h == (CHOOSE k \in 1..Len(subs) : subs[k].on = m.on)
           args == HandlerArgs(subs[h].cb, loop_var)
       IN  \E r \in {"none"} \cup HandleEventRaises :
             LET raised == IF m.valid THEN r ELSE "JSONDecodeError"
             IN  /\ handled' = Append(handled,
                       [on |-> m.on, valid |-> m.valid, received |-> TRUE,
                        called |-> m.valid,
                        subject |-> IF m.valid THEN args.subject ELSE "none",
                        chat_id |-> IF m.valid THEN args.chat_id ELSE 0,
                        raised |-> raised, caught |-> raised])
                 /\ escaped' = "none"
    /\ inbox' = <<>>
    /\ UNCHANGED <<rpc, to_subscribe, loop_var, subs, pvars, avars, xvars>>

RouterNext ==
    \/ subscribe
    \/ wait_for_events
    \/ publish
    \/ bus_callback

SpecRouter == RouterInit /\ [][RouterNext]_vars

(***************************************************************************)
(* client.py on_admin_message: the admin link watcher.  A text is a        *)
(* sequence of one-character strings.                                      *)
(***************************************************************************)
StrHttp ==
    <<"h", "t", "t", "p", ":", "/", "/">>

StrHttps ==
    <<"h", "t", "t", "p", "s", ":", "/", "/">>

StrWww ==
    <<"w", "w", "w", ".">>

StrWatch ==
    <<"y", "o", "u", "t", "u", "b", "e", ".", "c", "o", "m", "/", "w", "a",
      "t", "c", "h", "?", "v", "=">>

StrYoutuBe ==
    <<"y", "o", "u", "t", "u", ".", "b", "e", "/">>

StrShorts ==
    <<"y", "o", "u", "t", "u", "b", "e", ".", "c", "o", "m", "/", "s", "h",
      "o", "r", "t", "s", "/">>

\* client.py:30  the character class [a-zA-Z0-9_-]
IdChars ==
    {"a", "b", "c", "d", "e", "f", "g", "h", "i", "j", "k", "l", "m", "n", "o", "p",
     "q", "r", "s", "t", "u", "v", "w", "x", "y", "z", "A", "B", "C", "D", "E", "F",
     "G", "H", "I", "J", "K", "L", "M", "N", "O", "P", "Q", "R", "S", "T", "U", "V",
     "W", "X", "Y", "Z", "0", "1", "2", "3", "4", "5", "6", "7", "8", "9", "_", "-"}

\* client.py:30  the repetition count {11} of the identifier group
ID_LEN == 11

\* a plausible slip: the shorts shape is missing from the alternation
UrlPrefixesNoShorts ==
    { sch \o w \o sh : sch \in {<<>>, StrHttp, StrHttps},
                       w \in {<<>>, StrWww},
                       sh \in {StrWatch, StrYoutuBe} }

\* client.py:29-31  the literal texts the pattern accepts before the
\* identifier: (?:https?://)?(?:www\.)?(?:youtube\.com/watch\?v=|youtu\.be/|youtube\.com/shorts/)
UrlPrefixes ==
    { sch \o w \o sh : sch \in {<<>>, StrHttp, StrHttps},
                       w \in {<<>>, StrWww},
                       sh \in {StrWatch, StrYoutuBe, StrShorts} }

\* the literal lit stands in t at position p
StartsAt(t, p, lit) ==
    /\ p + Len(lit) - 1 <= Len(t)
    /\ SubSeq(t, p, p + Len(lit) - 1) = lit

\* ([a-zA-Z0-9_-]{11}) at position q: the group, <<>> when it does not match
IdAt(t, q) ==
    IF /\ q + ID_LEN - 1 <= Len(t)
       /\ \A k \in q..(q + ID_LEN - 1) : t[k] \in IdChars
    THEN SubSeq(t, q, q + ID_LEN - 1)
    ELSE <<>>

\* the pattern matched at position p: group(1), <<>> when there is no match
MatchAt(t, p) ==
    LET ids == { IdAt(t, p + Len(pre)) :
                   pre \in { x \in UrlPrefixes : StartsAt(t, p, x) } } \ {<<>>}
    IN  IF ids = {} THEN <<>> ELSE CHOOSE id \in ids : TRUE

\* the positions of t at which the pattern matches
MatchPositions(t) == { p \in 1..Len(t) : MatchAt(t, p) # <<>> }

\* a plausible slip: the last match of the text instead of the first
YOUTUBE_RE_search_last(t) ==
    LET ps == MatchPositions(t)
    IN  IF ps = {} THEN <<>>
        ELSE MatchAt(t, CHOOSE p \in ps : \A q \in ps : q <= p)

\* client.py:91  YOUTUBE_RE.search(text): group(1) of the leftmost match,
\* <<>> when the text has no match
YOUTUBE_RE_search(t) ==
    LET ps == MatchPositions(t)
    IN  IF ps = {} THEN <<>>
        ELSE MatchAt(t, CHOOSE p \in ps : \A q \in ps : p <= q)

\* client.py:96  url = f"https://www.youtube.com/watch?v={video_id}"
UrlOf(id) == StrHttps \o StrWww \o StrWatch \o id

\* client.py:99  the text of the acknowledgement
AckOf(id) == <<"D", "o", "w", "n", "l", "o", "a", "d", "i", "n", "g", " ">> \o id

(* The operator messages: up to MaxChunks chunks, each a piece of plain    *)
(* text, a link of one of the three shapes, or a near miss.                *)
IdA ==
    <<"d", "Q", "w", "4", "w", "9", "W", "g", "X", "c", "Q">>

IdB ==
    <<"a", "b", "c", "1", "2", "3", "4", "5", "6", "7", "8">>

IdC ==
    <<"x", "y", "z", "_", "X", "Y", "Z", "-", "z", "1", "2">>

ChunkNames == {"plain", "other", "short", "watch", "youtu.be", "shorts"}

\* the characters of a chunk
ChunkText(c) ==
    CASE c = "plain"    -> <<"l", "o", "o", "k", ":", " ">>
      [] c = "other"    -> StrHttps \o <<"g", "o", "o", "g", "l", "e", ".", "c", "o", "m", " ">>
      [] c = "short"    -> StrYoutuBe \o SubSeq(IdA, 1, ID_LEN - 1) \o <<" ">>
      [] c = "watch"    -> StrHttps \o StrWww \o StrWatch \o IdA \o <<" ">>
      [] c = "youtu.be" -> StrYoutuBe \o IdB
      [] c = "shorts"   -> <<" ">> \o StrHttp \o StrShorts \o IdC

RECURSIVE Concat(_)
Concat(cs) == IF cs = <<>> THEN <<>> ELSE ChunkText(Head(cs)) \o Concat(Tail(cs))

ChunkSeqs == UNION { [1..n -> ChunkNames] : n \in 0..MaxChunks }

AdminInit ==
    /\ PipelineIdle
    /\ RouterIdle
    /\ FormatIdle
    /\ PairIdle
    /\ apc = "received"
    /\ chunks \in ChunkSeqs
    /\ text = Concat(chunks)
    /\ video_id = <<>>
    /\ replies = <<>>
    /\ published = <<>>
    /\ aexc = "none"

\* client.py:90-98  search the text; return when there is no match
admin_match ==
    /\ apc = "received"
    /\ LET id == YOUTUBE_RE_search(text) IN
         /\ video_id' = id
         /\ apc' = IF id = <<>> THEN "done" ELSE "reply"
    /\ UNCHANGED <<chunks, text, replies, published, aexc, pvars, rvars, xvars>>

\* client.py:99  await event.reply(f"`Downloading {video_id}...`")
admin_reply ==
    /\ apc = "reply"
    /\ \E res \in {"ok", "raise"} :
         /\ replies' = Append(replies, [text |-> AckOf(video_id), res |-> res])
         /\ aexc' = IF res = "ok" THEN "none" ELSE "TransportError"
         /\ apc' = IF res = "ok" THEN "publish" ELSE "done"
    /\ UNCHANGED <<chunks, text, video_id, published, pvars, rvars, xvars>>

\* a plausible slip: the request names the likes channel, not the operator
admin_publish_to_likes ==
    /\ apc = "publish"
    /\ \E res \in {"ok", "raise"} :
         /\ published' = Append(published,
               [subject |-> "download.request", video_id |-> video_id,
                title |-> video_id, url |-> UrlOf(video_id),
                requester_chat_id |-> chat_id_likes, res |-> res])
         /\ aexc' = IF res = "ok" THEN "none" ELSE "BusError"
    /\ apc' = "done"
    /\ UNCHANGED <<chunks, text, video_id, replies, pvars, rvars, xvars>>

\* client.py:102-110  await nc.publish("download.request", {...})
admin_publish ==
    /\ apc = "publish"
    /\ \E res \in {"ok", "raise"} :
         /\ published' = Append(published,
               [subject |-> "download.request", video_id |-> video_id,
                title |-> video_id, url |-> UrlOf(video_id),
                requester_chat_id |-> admin_user_id, res |-> res])
         /\ aexc' = IF res = "ok" THEN "none" ELSE "BusError"
    /\ apc' = "done"
    /\ UNCHANGED <<chunks, text, video_id, replies, pvars, rvars, xvars>>

AdminNext ==
    \/ admin_match
    \/ admin_reply
    \/ admin_publish

SpecAdmin == AdminInit /\ [][AdminNext]_vars

(***************************************************************************)
(* The recognizer alone (client.py YOUTUBE_RE, tests/test_client.py        *)
(* TestYouTubeUrlParsing): YOUTUBE_RE.search applied to one text.  The     *)
(* text is <<before, scheme, www, shape, identifier, after>>, each drawn   *)
(* from a few tokens; chunks holds the tokens, text their characters.      *)
(***************************************************************************)
BeforeTokens == {"none", "words", "glued"}

SchemeTokens == {"none", "http", "https"}

WwwTokens == {"none", "www"}

ShapeTokens == {"watch", "youtu.be", "shorts", "playlist", "embed", "vimeo"}

IdTokens == {"A", "B", "C", "short", "long", "bad"}

AfterTokens == {"none", "words", "query"}

\* the characters of the token tok at place k of the text
TokenText(k, tok) ==
    CASE k = 1 -> (CASE tok = "none"  -> <<>>
                     [] tok = "words" -> <<"l", "o", "o", "k", ":", " ">>
                     [] tok = "glued" -> <<"s", "e", "e">>)
      [] k = 2 -> (CASE tok = "none"  -> <<>>
                     [] tok = "http"  -> StrHttp
                     [] tok = "https" -> StrHttps)
      [] k = 3 -> (CASE tok = "none" -> <<>>
                     [] tok = "www"  -> StrWww)
      [] k = 4 -> (CASE tok = "watch"    -> StrWatch
                     [] tok = "youtu.be" -> StrYoutuBe
                     [] tok = "shorts"   -> StrShorts
                     [] tok = "playlist" -> <<"y", "o", "u", "t", "u", "b", "e", ".", "c", "o", "m", "/", "p", "l", "a", "y", "l", "i", "s", "t", "?", "l", "i", "s", "t", "=">>
                     [] tok = "embed"    -> <<"y", "o", "u", "t", "u", "b", "e", ".", "c", "o", "m", "/", "e", "m", "b", "e", "d", "/">>
                     [] tok = "vimeo"    -> <<"v", "i", "m", "e", "o", ".", "c", "o", "m", "/">>)
      [] k = 5 -> (CASE tok = "A"     -> IdA
                     [] tok = "B"     -> IdB
                     [] tok = "C"     -> IdC
                     [] tok = "short" -> SubSeq(IdA, 1, ID_LEN - 1)
                     [] tok = "long"  -> IdA \o <<"Z">>
                     [] tok = "bad"   -> SubSeq(IdA, 1, 4) \o <<"!">> \o SubSeq(IdA, 6, ID_LEN))
      [] k = 6 -> (CASE tok = "none"  -> <<>>
                     [] tok = "words" -> <<" ", "o", "k">>
                     [] tok = "query" -> <<"&", "t", "=", "4", "2">>)

RECURSIVE TokensText(_, _)
TokensText(toks, k) ==
    IF k > Len(toks) THEN <<>> ELSE TokenText(k, toks[k]) \o TokensText(toks, k + 1)

RecognizerInit ==
    /\ PipelineIdle
    /\ RouterIdle
    /\ FormatIdle
    /\ PairIdle
    /\ apc = "search"
    /\ chunks \in BeforeTokens \X SchemeTokens \X WwwTokens \X ShapeTokens
                  \X IdTokens \X AfterTokens
    /\ text = TokensText(chunks, 1)
    /\ video_id = <<>>
    /\ replies = <<>>
    /\ published = <<>>
    /\ aexc = "none"

\* client.py:91, tests/test_client.py:99-117  m = YOUTUBE_RE.search(text)
search ==
    /\ apc = "search"
    /\ video_id' = YOUTUBE_RE_search(text)
    /\ apc' = "searched"
    /\ UNCHANGED <<chunks, text, replies, published, aexc, pvars, rvars, xvars>>

RecognizerNext == search

SpecRecognizer == RecognizerInit /\ [][RecognizerNext]_vars

(***************************************************************************)
(* formatter.py: the formatters as functions of the payload.  A formatted  *)
(* text is the sequence of the pieces of its f-string: the literal pieces  *)
(* (written without their emoji) and the interpolated values.              *)
(***************************************************************************)
\* Python `a or b` on strings, None standing as ""
OrStr(a, b) == IF a # "" THEN a ELSE b

\* a plausible slip: {m}:{s} without the :02d format spec
Pad2_no_padding(n) == ToString(n)

\* the format spec :02d
Pad2(n) == IF n < 10 THEN "0" \o ToString(n) ELSE ToString(n)

\* a plausible slip: the guard `if not seconds` is missing
format_duration_no_guard(seconds) ==
    LET h == seconds \div 3600
        m == (seconds % 3600) \div 60
        sec == (seconds % 3600) % 60
    IN  IF h # 0 THEN ToString(h) \o ":" \o Pad2(m) \o ":" \o Pad2(sec)
        ELSE ToString(m) \o ":" \o Pad2(sec)

\* formatter.py:12-18  format_duration; None is passed as 0
format_duration(seconds) ==
    IF seconds = 0 THEN "Unknown"
    ELSE LET h == seconds \div 3600
             m == (seconds % 3600) \div 60
             sec == (seconds % 3600) % 60
         IN  IF h # 0 THEN ToString(h) \o ":" \o Pad2(m) \o ":" \o Pad2(sec)
             ELSE ToString(m) \o ":" \o Pad2(sec)

\* the format spec :.1f of count / unit, for counts that are not half-way
\* between two tenths
OneDecimal(count, unit) ==
    LET tenths == (count * 10 + unit \div 2) \div unit
    IN  ToString(tenths \div 10) \o "." \o ToString(tenths % 10)

\* formatter.py:21-29  format_views; None is passed as 0
format_views(count) ==
    IF count = 0 THEN "N/A"
    ELSE IF count >= 1000000 THEN OneDecimal(count, 1000000) \o "M"
    ELSE IF count >= 1000 THEN OneDecimal(count, 1000) \o "K"
    ELSE ToString(count)

\* a plausible slip: channel is looked at before channel_title
channel_first(d) ==
    OrStr(Get(d.channel, ""), OrStr(Get(d.channel_title, ""), "Unknown"))

\* formatter.py:75-77  _channel
channel_of(d) ==
    OrStr(Get(d.channel_title, ""), OrStr(Get(d.channel, ""), "Unknown"))

\* formatter.py:33, 44, 69  duration = data.get("duration") or format_duration(...)
duration_of(d) ==
    OrStr(Get(d.duration, ""), format_duration(Get(d.duration_seconds, 0)))

\* formatter.py:32-40
format_watch(d) ==
    << "Watched\n\n", Get(d.title, "Unknown"), "\nChannel: ", channel_of(d),
       "\nDuration: ", duration_of(d),
       "\n\nhttps://youtube.com/watch?v=", Get(d.video_id, "") >>

\* formatter.py:43-51
format_like(d) ==
    << "Liked\n\n", Get(d.title, "Unknown"), "\nChannel: ", channel_of(d),
       "\nDuration: ", duration_of(d), "\n\nDownloading for Telegram..." >>

\* formatter.py:54-65
format_subscription(d) ==
    IF Get(d.action, "subscribed") = "unsubscribed"
    THEN << "Unsubscribed\n\nChannel: ", channel_of(d) >>
    ELSE << "New Subscription\n\n", channel_of(d),
            "\n\nhttps://youtube.com/channel/", Get(d.channel_id, "") >>

\* formatter.py:68-72  format_video_caption(data): "{title} - {channel} ({duration})"
caption_text(d) ==
    << Get(d.title, "Video"), " - ", channel_of(d), " (", duration_of(d), ")" >>

\* the payloads: every subset of the optional keys, empty strings included
FormatPayloads ==
    [ title            : {<<>>, <<"My Video">>},
      channel_title    : {<<>>, <<"">>, <<"My Channel">>},
      channel          : {<<>>, <<"">>, <<"Ch">>},
      duration         : {<<>>, <<"">>, <<"4:20">>},
      duration_seconds : {<<>>, <<0>>, <<90>>, <<3661>>},
      video_id         : {<<>>, <<"abc123">>},
      action           : {<<>>, <<"subscribed">>, <<"unsubscribed">>},
      channel_id       : {<<>>, <<"UC1">>} ]

\* the view counts: None, and one count for each branch of format_views
ViewCounts == {<<>>, <<0>>, <<999>>, <<45300>>, <<1200000>>}

FormatInit ==
    /\ PipelineIdle
    /\ RouterIdle
    /\ AdminIdle
    /\ PairIdle
    /\ fpc = "input"
    /\ fdata \in FormatPayloads
    /\ fcount \in ViewCounts
    /\ fout = <<>>

\* the six formatters applied to the payload
format ==
    /\ fpc = "input"
    /\ fout' = [ watch        |-> format_watch(fdata),
                 like         |-> format_like(fdata),
                 subscription |-> format_subscription(fdata),
                 caption      |-> caption_text(fdata),
                 duration     |-> format_duration(Get(fdata.duration_seconds, 0)),
                 views        |-> format_views(Get(fcount, 0)) ]
    /\ fpc' = "formatted"
    /\ UNCHANGED <<fdata, fcount, cvars, pvars, rvars, avars>>

FormatNext == format

SpecFormat == FormatInit /\ [][FormatNext]_vars

(***************************************************************************)
(* formatter.py format_duration on its own: every number of seconds up to  *)
(* MaxSeconds, None, and a few long durations.                             *)
(***************************************************************************)
MaxSeconds == 7325

\* ten hours, a day less a second, a day, a hundred hours
LongDurations == {36000, 86399, 86400, 360000}

\* the arguments: None and the integers
SecondsInputs ==
    {<<>>} \cup {<<n>> : n \in (0..MaxSeconds) \cup LongDurations}

DurationInit ==
    /\ PipelineIdle
    /\ RouterIdle
    /\ AdminIdle
    /\ PairIdle
    /\ fpc = "seconds"
    /\ fdata = <<>>
    /\ fcount \in SecondsInputs
    /\ fout = <<>>

\* formatter.py:12-18  format_duration(seconds)
duration_call ==
    /\ fpc = "seconds"
    /\ fout' = <<format_duration(Get(fcount, 0))>>
    /\ fpc' = "rendered"
    /\ UNCHANGED <<fdata, fcount, cvars, pvars, rvars, avars>>

DurationNext == duration_call

SpecDuration == DurationInit /\ [][DurationNext]_vars

(***************************************************************************)
(* handlers.py _crop_to_ratio on its own: an image of size (img_w, img_h)  *)
(* and the dimensions (target_w, target_h) of the video.  Ratios are       *)
(* compared by cross-multiplication, and int() of a positive quotient is   *)
(* the integer division.                                                   *)
(***************************************************************************)
\* widths and heights in pixels: degenerate, small, and usual ones
CropDims == {1, 9, 10, 16, 100, 720, 1280}

Abs(x) == IF x < 0 THEN -x ELSE x

\* handlers.py:281  abs(target_ratio - img_ratio) < 0.01
RatiosMatch(img_w, img_h, target_w, target_h) ==
    100 * Abs(target_w * img_h - img_w * target_h) < target_h * img_h

\* handlers.py:270-291  the size of the image _crop_to_ratio returns
crop_to_ratio(img_w, img_h, target_w, target_h) ==
    IF RatiosMatch(img_w, img_h, target_w, target_h)
    THEN <<img_w, img_h>>
    ELSE IF img_w * target_h > target_w * img_h
    THEN <<(img_h * target_w) \div target_h, img_h>>
    ELSE <<img_w, (img_w * target_h) \div target_w>>

CropInit ==
    /\ PipelineIdle
    /\ RouterIdle
    /\ AdminIdle
    /\ PairIdle
    /\ fpc = "image"
    /\ fdata \in [img_w : CropDims, img_h : CropDims,
                  target_w : CropDims, target_h : CropDims]
    /\ fcount = <<>>
    /\ fout = <<>>

\* handlers.py:184  img = _crop_to_ratio(img, w, h)
crop_call ==
    /\ fpc = "image"
    /\ fout' = crop_to_ratio(fdata.img_w, fdata.img_h, fdata.target_w, fdata.target_h)
    /\ fpc' = "cropped"
    /\ UNCHANGED <<fdata, fcount, cvars, pvars, rvars, avars>>

CropNext == crop_call

SpecCrop == CropInit /\ [][CropNext]_vars

(***************************************************************************)
(* handlers.py handle_download_complete: two invocations, for two          *)
(* completed downloads with their own file_path, on one event loop.  An    *)
(* invocation runs without interruption from one await to the next, so a   *)
(* step is the code between two suspension points.  The deliveries are of  *)
(* existing files reported as successful.                                  *)
(***************************************************************************)
Invocations == {1, 2}

Other(k) == 3 - k

\* the file_path of the event of each invocation
PairFile(k) == IF k = 1 THEN Path("/dl/a.mp4") ELSE Path("/dl/b.mp4")

\* the sizes of the two branches: under the ceiling, and over it (two parts)
PairSizes == {Bytes(0, 1500), Bytes(2, 0)}

\* the names tempfile.mktemp can return
TmpNames == {Path("/tmp/tmp1.jpg"), Path("/tmp/tmp2.jpg")}

\* a plausible slip: one fixed name for the thumbnail
mktemp_fixed(f) == {Path("/tmp/tmp1.jpg")}

\* handlers.py:177  tempfile.mktemp(suffix=".jpg"): a name that does not exist
mktemp(f) == { t \in TmpNames : t \notin f }

Range(seq) == { seq[n] : n \in 1..Len(seq) }

\* the paths invocation k refers to
Own(k) == ({inv[k].file_path, inv[k].thumb_path} \cup Range(inv[k].parts)) \ {NonePath}

\* the paths the other invocation refers to while it is in flight
Held(k) == IF inv[Other(k)].pc = "sending" THEN Own(Other(k)) ELSE {}

\* one file operation of invocation k, with the paths k refers to (own) and
\* the paths the other invocation refers to at that time (held)
FileOp(k, op, path, own, held) ==
    [by |-> k, op |-> op, path |-> path, own |-> own, held |-> held]

\* handlers.py:153-156, 340-347  the finally block of invocation k, whose
\* paths are fp, thumb and prts: the os.remove calls it makes on files f
FinallyOps(k, f, fp, thumb, prts) ==
    LET own == ({fp, thumb} \cup Range(prts)) \ {NonePath} IN
    (IF fp \in f THEN <<FileOp(k, "os.remove", fp, own, Held(k))>> ELSE <<>>)
    \o (IF ~Falsy(thumb) /\ thumb \in f
        THEN <<FileOp(k, "os.remove", thumb, own, Held(k))>> ELSE <<>>)

\* handlers.py:69-101  an invocation that has not started: event_path is
\* data["file_path"], size what os.path.getsize will give, url whether the
\* payload has a thumbnail; sent counts the send_file calls that returned
InvocationStates ==
    [pc : {"start"}, event_path : {PairFile(1), PairFile(2)},
     file_path : {NonePath}, size : PairSizes, url : BOOLEAN,
     thumb_path : {NonePath}, parts : {<<>>}, next : {0}, sent : {0},
     exc : {"none"}]

PairInit ==
    /\ PipelineIdle
    /\ RouterIdle
    /\ AdminIdle
    /\ FormatIdle
    /\ cfs = {PairFile(1), PairFile(2)}
    /\ inv \in [Invocations -> InvocationStates]
    /\ \A k \in Invocations : inv[k].event_path = PairFile(k)
    /\ clog = <<>>

\* handlers.py:80-139  invocation k from its start to its first await: of
\* the notice when the file is missing (96-97), of send_file otherwise; or
\* to its end when it raises before
pair_start(k) ==
    /\ inv[k].pc = "start"
    /\ LET fp == inv[k].event_path IN
       IF fp \notin cfs
       THEN /\ inv' = [inv EXCEPT ![k].pc = "noticing"]
            /\ clog' = Append(clog, FileOp(k, "send_message", fp, {}, Held(k)))
            /\ UNCHANGED cfs
       ELSE
       \E how \in {"fetch_fail", "decode_fail", "ok"}, t \in mktemp(cfs) :
         LET thumb == IF inv[k].url /\ how = "ok" THEN t ELSE NonePath
             f1 == IF inv[k].url /\ how # "fetch_fail" THEN cfs \cup {t} ELSE cfs
         IN
         IF UseSingleUpload(inv[k].size)
         THEN /\ cfs' = f1
              /\ inv' = [inv EXCEPT ![k].pc = "sending", ![k].file_path = fp,
                                    ![k].thumb_path = thumb]
              /\ clog' = Append(clog, FileOp(k, "send_file", fp,
                                             {fp, thumb} \ {NonePath}, Held(k)))
         ELSE LET n == NumParts(inv[k].size)
                  prts == [m \in 1..n |-> PartPath(fp, m)]
                  f2 == f1 \cup Range(prts)
                  own == ({fp, thumb} \cup Range(prts)) \ {NonePath}
                  cap == format_video_caption([part |-> 1, total |-> n])
              IN  IF cap.raised
                  THEN /\ cfs' = f2 \ {fp, thumb}
                       /\ inv' = [inv EXCEPT ![k].pc = "done", ![k].file_path = fp,
                                             ![k].thumb_path = thumb,
                                             ![k].parts = prts,
                                             ![k].exc = "TypeError"]
                       /\ clog' = clog \o FinallyOps(k, f2, fp, thumb, prts)
                  ELSE /\ cfs' = f2
                       /\ inv' = [inv EXCEPT ![k].pc = "sending", ![k].file_path = fp,
                                             ![k].thumb_path = thumb,
                                             ![k].parts = prts, ![k].next = 1]
                       /\ clog' = Append(clog, FileOp(k, "send_file", prts[1],
                                                      own, Held(k)))
    /\ UNCHANGED <<fvars, pvars, rvars, avars>>

\* handlers.py:119-156  invocation k from the return of an awaited send_file
\* to its next await, or to its end through the finally block
pair_resume(k) ==
    /\ inv[k].pc = "sending"
    /\ \E res \in {"ok", "raise"} :
         LET fp == inv[k].file_path
             thumb == inv[k].thumb_path
             prts == inv[k].parts
             m == inv[k].next
         IN
         IF prts = <<>> \/ res = "raise"
         THEN /\ cfs' = cfs \ {fp, thumb}
              /\ inv' = [inv EXCEPT ![k].pc = "done",
                                    ![k].sent = IF res = "ok" THEN @ + 1 ELSE @,
                                    ![k].exc = IF res = "ok" THEN "none"
                                               ELSE "TransportError"]
              /\ clog' = clog \o FinallyOps(k, cfs, fp, thumb, prts)
         ELSE LET removed == IF prts[m] \in cfs
                             THEN <<FileOp(k, "os.remove", prts[m], Own(k), Held(k))>>
                             ELSE <<>>
                  f1 == cfs \ {prts[m]}
              IN  IF m < Len(prts)
                  THEN /\ cfs' = f1
                       /\ inv' = [inv EXCEPT ![k].next = m + 1, ![k].sent = @ + 1]
                       /\ clog' = clog \o removed
                            \o <<FileOp(k, "send_file", prts[m + 1], Own(k), Held(k))>>
                  ELSE /\ cfs' = f1 \ {fp, thumb}
                       /\ inv' = [inv EXCEPT ![k].pc = "done", ![k].sent = @ + 1]
                       /\ clog' = clog \o removed \o FinallyOps(k, f1, fp, thumb, prts)
    /\ UNCHANGED <<fvars, pvars, rvars, avars>>

PairNext ==
    \/ \E k \in Invocations : pair_start(k)
    \/ \E k \in Invocations : pair_resume(k)

SpecPair == PairInit /\ [][PairNext]_vars

(***************************************************************************)
(* handlers.py handle_download_complete: the same download.complete event  *)
(* delivered twice.  The two invocations have the same payload, so the     *)
(* same file_path, size and thumbnail; the second may start after the      *)
(* first is over, or while the first awaits send_file.                     *)
(***************************************************************************)
DuplicateInit ==
    /\ PipelineIdle
    /\ RouterIdle
    /\ AdminIdle
    /\ FormatIdle
    /\ cfs = {PairFile(1)}
    /\ inv \in [Invocations -> InvocationStates]
    /\ \A k \in Invocations : inv[k].event_path = PairFile(1)
    /\ inv[1].size = inv[2].size
    /\ inv[1].url = inv[2].url
    /\ clog = <<>>

\* handlers.py:97-99  the awaited "File not found" notice returns or raises,
\* and the invocation is over
pair_notice(k) ==
    /\ inv[k].pc = "noticing"
    /\ \E res \in {"ok", "raise"} :
         inv' = [inv EXCEPT ![k].pc = "done",
                            ![k].exc = IF res = "ok" THEN "none" ELSE "TransportError"]
    /\ UNCHANGED <<cfs, clog, fvars, pvars, rvars, avars>>

DuplicateNext ==
    \/ \E k \in Invocations : pair_start(k)
    \/ \E k \in Invocations : pair_resume(k)
    \/ \E k \in Invocations : pair_notice(k)

SpecDuplicate == DuplicateInit /\ [][DuplicateNext]_vars

(***************************************************************************)
(* client.py run(): the wait for events and the shutdown, with two         *)
(* deliveries of download.complete on the same event loop.  rpc goes from  *)
(* "waiting" to "closing" (in await nc.close()), "disconnecting" (in await *)
(* tg.disconnect()), "finished" (run() is over) and "exited" (asyncio.run  *)
(* has returned).  The steps of run() are logged in clog as operations of  *)
(* task 0.  Callbacks are started by the bus connection, so a delivery     *)
(* starts only before nc.close() is over.                                  *)
(***************************************************************************)
MainTask == 0

\* one step of run(), in the log of operations
MainOp(op) == FileOp(MainTask, op, NonePath, {}, {})

ShutdownInit ==
    /\ PipelineIdle
    /\ RouterIdle
    /\ AdminIdle
    /\ FormatIdle
    /\ cfs = {PairFile(1), PairFile(2)}
    /\ inv \in [Invocations -> InvocationStates]
    /\ \A k \in Invocations : inv[k].event_path = PairFile(k)
    /\ clog = <<>>

\* the bus hands a download.complete message to its callback
delivery(k) ==
    /\ rpc \in {"waiting", "closing"}
    /\ pair_start(k)

\* client.py:117-120  await asyncio.Event().wait() is interrupted; the
\* finally block starts with await nc.close()
interrupt ==
    /\ rpc = "waiting"
    /\ rpc' = "closing"
    /\ clog' = clog \o <<MainOp("interrupted"), MainOp("nc.close")>>
    /\ UNCHANGED <<cfs, inv, to_subscribe, loop_var, subs, inbox, handled, escaped,
                   fvars, pvars, avars>>

\* a plausible slip: the finally block only closes the bus connection
close_returns_no_disconnect ==
    /\ rpc = "closing"
    /\ \E res \in {"ok", "raise"} :
         /\ rpc' = "finished"
         /\ clog' = Append(clog, MainOp(IF res = "ok" THEN "nc.close.returned"
                                        ELSE "nc.close.raised"))
    /\ UNCHANGED <<cfs, inv, to_subscribe, loop_var, subs, inbox, handled, escaped,
                   fvars, pvars, avars>>

\* client.py:120-121  nc.close() returns, and tg.disconnect() is awaited; or
\* it raises, and the exception leaves the finally block and run()
close_returns ==
    /\ rpc = "closing"
    /\ \E res \in {"ok", "raise"} :
         IF res = "ok"
         THEN /\ rpc' = "disconnecting"
              /\ clog' = clog \o <<MainOp("nc.close.returned"), MainOp("tg.disconnect")>>
         ELSE /\ rpc' = "finished"
              /\ clog' = Append(clog, MainOp("nc.close.raised"))
    /\ UNCHANGED <<cfs, inv, to_subscribe, loop_var, subs, inbox, handled, escaped,
                   fvars, pvars, avars>>

\* client.py:121-122  tg.disconnect() returns or raises; run() is over
disconnect_returns ==
    /\ rpc = "disconnecting"
    /\ \E res \in {"ok", "raise"} :
         clog' = Append(clog, MainOp(IF res = "ok" THEN "tg.disconnect.returned"
                                     ELSE "tg.disconnect.raised"))
    /\ rpc' = "finished"
    /\ UNCHANGED <<cfs, inv, to_subscribe, loop_var, subs, inbox, handled, escaped,
                   fvars, pvars, avars>>

\* __main__.py  asyncio.run(run()): when run() is over the remaining tasks
\* are cancelled and run to their end (an invocation in send_file resumes
\* with the exception), then asyncio.run returns
loop_exit ==
    /\ rpc = "finished"
    /\ \A k \in Invocations : inv[k].pc # "sending"
    /\ rpc' = "exited"
    /\ UNCHANGED <<cfs, inv, clog, to_subscribe, loop_var, subs, inbox, handled,
                   escaped, fvars, pvars, avars>>

ShutdownNext ==
    \/ \E k \in Invocations : delivery(k)
    \/ \E k \in Invocations : pair_resume(k)
    \/ interrupt
    \/ close_returns
    \/ disconnect_returns
    \/ loop_exit

SpecShutdown == ShutdownInit /\ [][ShutdownNext]_vars

(***************************************************************************)
(* Vocabulary of the properties                                            *)
(***************************************************************************)
\* handle_download_complete has returned or raised
HdcEnded == outcome # "none"

\* the invocation is a delivery of an existing file reported as successful
DeliversExistingFile ==
    /\ subject = "download.complete"
    /\ data.success = <<TRUE>>
    /\ data.file_path = <<SrcPath>>

\* the size is over the ceiling of 1,950,000,000 bytes
OverCeiling(size) == size.g > 1 \/ (size.g = 1 /\ size.r > 950000000)

SendFileCalls == CallsOf("send_file")

SourceUploads == { k \in SendFileCalls : calls[k].path.part = 0 }

PartUploads == { k \in SendFileCalls : calls[k].path.part > 0 }

SegmenterInvoked == CallsOf("split_video") # {}

PartFilesOnDisk == { p \in fs : p.part > 0 }

\* no send_file call raised
TransportAccepted == \A k \in SendFileCalls : calls[k].res = "ok"

\* no external call at all failed
NoExternalFailure == \A k \in 1..Len(calls) : calls[k].res = "ok"

\* _safe_remove(path) was called after call number k
RemovedAfter(k, path) ==
    \E j \in CallsOf("_safe_remove") : j > k /\ calls[j].path = path

(***************************************************************************)
(* C1..C10                                                                 *)
(***************************************************************************)
\* C1: when an invocation for a successful download of an existing file
\* ends, on either branch and whether the upload returned or raised, the
\* source file and the thumbnail file prepare_thumbnail returned are gone
\* from disk, provided no os.remove call failed.
C1_CleanupOnEveryExit ==
    (HdcEnded /\ DeliversExistingFile /\ ~removeFailed)
        => /\ SrcPath \notin fs
           /\ thumb_path # NonePath => thumb_path \notin fs

\* C1 witness: the upload raised, a thumbnail had been generated, and both
\* files are gone when the invocation has ended
C1_Witness ==
    /\ HdcEnded /\ DeliversExistingFile /\ ~removeFailed
    /\ outcome = "TransportError"
    /\ thumb_path = TmpThumb
    /\ fs = {}

\* C2: when send_file raises, the exception reaches the caller of
\* handle_download_complete only after _safe_remove ran on the source and
\* then on the thumbnail; the pipeline does not swallow it (its caller
\* observes that exception), and the bus callback is the one that catches it.
C2_RaiseAfterCleanup ==
    \A k \in SendFileCalls : calls[k].res = "raise" =>
        /\ HdcEnded => /\ outcome = "TransportError"
                       /\ \E a \in CallsOf("_safe_remove") :
                            /\ a > k
                            /\ calls[a].path = file_path
                            /\ RemovedAfter(a, thumb_path)
        /\ ~HdcEnded => (exc = "TransportError" /\ caught = "none")
        /\ pc = "done" => (caught = "TransportError" /\ exc = "none")

\* C2 witness: an upload raised and the bus callback caught the exception
C2_Witness ==
    /\ pc = "done"
    /\ caught = "TransportError"
    /\ \E k \in SendFileCalls : calls[k].res = "raise"
    /\ RemovedAfter(0, file_path)

\* C3 (as claimed): once an invocation that entered the multi-part branch
\* has ended, no part file exists on disk.
C3_NoPartFileLeft ==
    (HdcEnded /\ SegmenterInvoked) => PartFilesOnDisk = {}

\* C4 (as claimed): after a multi-part delivery in which no external call
\* failed, no part file, source file or thumbnail exists on disk and the
\* parts were uploaded in ascending order, part 1 to part N.
C4_MultiPartDelivered ==
    (HdcEnded /\ parts # <<>> /\ NoExternalFailure)
        => /\ PartFilesOnDisk = {}
           /\ SrcPath \notin fs
           /\ TmpThumb \notin fs
           /\ Cardinality(PartUploads) = Len(parts)
           /\ \A a, b \in PartUploads :
                a < b => calls[a].path.part < calls[b].path.part

\* C5 (as claimed): for a file over the ceiling split into N parts, when the
\* transport accepts every upload the invocation uploads each part exactly
\* once with the caption label "part i/N" and returns normally.
C5_EachPartUploadedOnce ==
    (HdcEnded /\ parts # <<>> /\ TransportAccepted)
        => /\ outcome = "returned"
           /\ \A n \in 1..Len(parts) :
                /\ Cardinality({ k \in SendFileCalls : calls[k].path = parts[n] }) = 1
                /\ \A k \in SendFileCalls : calls[k].path = parts[n] =>
                     (calls[k].part = n /\ calls[k].total = Len(parts))

\* C6 (as claimed): in the multi-part branch every part is uploaded in turn
\* and its file is removed by the call that directly follows its own upload,
\* before the next part's upload; no part file is left for the end.
C6_PartDeletedAfterOwnUpload ==
    (HdcEnded /\ parts # <<>> /\ TransportAccepted)
        => \A n \in 1..Len(parts) :
             \E k \in SendFileCalls :
                /\ calls[k].path = parts[n]
                /\ k < Len(calls)
                /\ calls[k + 1].op = "_safe_remove"
                /\ calls[k + 1].path = parts[n]
                /\ \A m \in SendFileCalls : calls[m].path.part > n => m > k + 1

\* C7: an invocation never does both: if it uploaded the source file it
\* neither invoked the segmenter nor uploaded a part.
C7_OneBranchOnly ==
    ~(SourceUploads # {} /\ (SegmenterInvoked \/ PartUploads # {}))

\* C7 witness: an ended invocation that invoked the segmenter
C7_Witness ==
    /\ HdcEnded
    /\ SegmenterInvoked
    /\ parts # <<>>
    /\ SourceUploads = {}

\* C8: once past the size test, a file at or under 1,950,000,000 bytes has
\* exactly one send_file call, on the source path, and no segmenter call; a
\* file over the ceiling has a segmenter call.
C8_BranchByCeiling ==
    (HdcEnded /\ CallsOf("os.path.getsize") # {})
        => IF OverCeiling(srcSize)
           THEN SegmenterInvoked
           ELSE /\ Cardinality(SendFileCalls) = 1
                /\ \A k \in SendFileCalls : calls[k].path = SrcPath
                /\ ~SegmenterInvoked

\* C8 witness: a file of exactly 1,950,000,000 bytes was sent as one file
C8_Witness ==
    /\ HdcEnded
    /\ srcSize = Bytes(1, 950000000)
    /\ Cardinality(SourceUploads) = 1
    /\ ~SegmenterInvoked

\* C9: num_parts is the ceiling of size / 1,950,000,000: the three
\* representative sizes give 1, 2, 3; for a size over the ceiling
\* num_parts >= 2, num_parts * ceiling >= size, (num_parts - 1) * ceiling
\* < size; and split_video returns (and extracts) exactly that many parts.
C9_NumPartsIsCeil ==
    LET M == Bytes(1, 950000000)
        n == NumParts(srcSize)
    IN  /\ srcSize = Bytes(1, 900000000) => n = 1
        /\ srcSize = Bytes(2, 0) => n = 2
        /\ srcSize = Bytes(4, 0) => n = 3
        /\ OverCeiling(srcSize) =>
             /\ n >= 2
             /\ BytesLeq(srcSize, BytesMul(n, M))
             /\ BytesLess(BytesMul(n - 1, M), srcSize)
        /\ parts # <<>> =>
             /\ Len(parts) >= 2
             /\ BytesLeq(srcSize, BytesMul(Len(parts), M))
             /\ BytesLess(BytesMul(Len(parts) - 1, M), srcSize)
             /\ Cardinality(CallsOf("ffmpeg")) = Len(parts)
             /\ \A k \in 1..Len(parts) : parts[k] = PartPath(SrcPath, k)

\* C9 witness: a file of 4,000,000,000 bytes was split into 3 parts
C9_Witness ==
    /\ srcSize = Bytes(4, 0)
    /\ Len(parts) = 3
    /\ Cardinality(CallsOf("ffmpeg")) = 3

\* C10: for a payload whose success flag is false or absent the invocation
\* makes one call only, the send_message of the failure notice: no
\* existence test, size query, probe, thumbnail fetch, send_file or removal,
\* and the files on disk are those of the start.
C10_FailedDownloadOnlyNotice ==
    (subject = "download.complete" /\ data.success \in {<<>>, <<FALSE>>})
        => /\ fs = {SrcPath}
           /\ Len(calls) <= 1
           /\ \A k \in 1..Len(calls) :
                calls[k].op = "send_message" /\ calls[k].text = "Download failed"
           /\ HdcEnded => Len(calls) = 1

\* C10 witness: a payload without success key ended after its one notice
C10_Witness ==
    /\ subject = "download.complete"
    /\ data.success = <<>>
    /\ outcome = "returned"
    /\ Len(calls) = 1
    /\ calls[1].op = "send_message"

(***************************************************************************)
(* C11..C20                                                                *)
(***************************************************************************)
\* the download is reported as successful but file_path is absent, empty,
\* null or names no file
MissingFilePayload ==
    /\ subject = "download.complete"
    /\ data.success = <<TRUE>>
    /\ data.file_path \in {<<>>, <<Path("")>>, <<NonePath>>, <<GonePath>>}

\* the download is reported as failed: success is false or absent
FailedPayload ==
    /\ subject = "download.complete"
    /\ data.success \in {<<>>, <<FALSE>>}

NoticeCalls == CallsOf("send_message")

\* the calls made on the transport client
TransportCalls == NoticeCalls \cup SendFileCalls

C12_NoticeXorUpload ==
    subject = "download.complete"
        => /\ Cardinality(NoticeCalls) <= 1
           /\ ~(NoticeCalls # {} /\ SendFileCalls # {})
           /\ (HdcEnded /\ (FailedPayload \/ MissingFilePayload))
                => Cardinality(NoticeCalls) = 1

\* C12 witness: an invocation whose upload raised ended without any notice
C12_Witness ==
    /\ subject = "download.complete"
    /\ HdcEnded
    /\ \E k \in SendFileCalls : calls[k].res = "raise"
    /\ NoticeCalls = {}

\* C13 (as claimed): when the payload has a requester_chat_id every
\* transport call of the invocation targets it, otherwise every transport
\* call targets the default destination.
C13_RequesterOverridesDefault ==
    subject = "download.complete"
        => \A k \in TransportCalls :
             calls[k].chat = (IF data.requester_chat_id # <<>>
                              THEN data.requester_chat_id[1] ELSE chat_id)

\* handle_event was called and has returned or raised
HandleEventEnded ==
    /\ pc \in {"handler_exit", "done"}
    /\ exc # "JSONDecodeError"
    /\ caught # "JSONDecodeError"

\* C14: handle_event called with an unrecognized subject makes no transport
\* call (indeed no call at all), raises nothing and leaves every file and
\* every variable of the delivery as it was.
C14_UnknownSubjectIgnored ==
    subject = "unknown.subject"
        => /\ calls = <<>>
           /\ exc = "none"
           /\ outcome = "none"
           /\ fs = {SrcPath}
           /\ target_chat = 0 /\ file_path = NonePath /\ thumb_path = NonePath
           /\ parts = <<>>
           /\ pc \in {"handle_event", "handler_exit"}

\* C14 witness: handle_event has returned for the unrecognized subject
C14_Witness ==
    /\ subject = "unknown.subject"
    /\ pc = "handler_exit"
    /\ calls = <<>>
    /\ exc = "none"

\* C15: for youtube.watch, youtube.likes, youtube.subscriptions and
\* system.health handle_event makes exactly one call, a send_message to the
\* chat_id it was given; for system.health the text is the payload's message
\* or "Health check received" when the payload has none.
C15_OneNotificationToGivenChat ==
    subject \in {"youtube.watch", "youtube.likes", "youtube.subscriptions",
                 "system.health"}
        => /\ Len(calls) <= 1
           /\ HandleEventEnded => Len(calls) = 1
           /\ \A k \in 1..Len(calls) :
                /\ calls[k].op = "send_message"
                /\ calls[k].chat = chat_id
                /\ subject = "system.health" =>
                     calls[k].text = (IF data.message = <<>>
                                      THEN "Health check received"
                                      ELSE data.message[1])

\* C15 witness: a health message without message field was sent with the
\* default text
C15_Witness ==
    /\ subject = "system.health"
    /\ data.message = <<>>
    /\ HandleEventEnded
    /\ Len(calls) = 1
    /\ calls[1].text = "Health check received"
    /\ calls[1].chat = chat_id

\* tests/test_client.py:36-42  the routes the tests expect
expected_routes ==
    [ s \in ConsumedSubjects |->
        CASE s = "youtube.watch"         -> chat_id_watch_history
          [] s = "youtube.likes"         -> chat_id_likes
          [] s = "youtube.subscriptions" -> -100222
          [] s = "download.complete"     -> chat_id_likes
          [] s = "system.health"         -> admin_user_id ]

\* the subscriptions made for subject s
SubsOn(s) == { k \in 1..Len(subs) : subs[k].on = s }

\* C16 (as claimed): once run() waits for events, each of the five consumed
\* subjects has exactly one subscription, bound to its configured
\* destination, and every message published on one of them is received.
C16_AllFiveSubscribed ==
    rpc = "waiting"
        => /\ \A s \in ConsumedSubjects :
                /\ Cardinality(SubsOn(s)) = 1
                /\ \A k \in SubsOn(s) : subs[k].cb.chat_id = expected_routes[s]
           /\ \A k \in 1..Len(handled) : handled[k].received

\* C17: an exception raised while a bus message is handled (invalid JSON,
\* or any exception out of handle_event) is caught in that message's
\* callback and none leaves a callback; the subscriptions stay in place and
\* the router goes on accepting messages.
C17_FailuresStayInCallback ==
    /\ escaped = "none"
    /\ \A k \in 1..Len(handled) : handled[k].caught = handled[k].raised
    /\ rpc = "waiting" => \A s \in DOMAIN routes : Cardinality(SubsOn(s)) = 1
    /\ (rpc = "waiting" /\ inbox = <<>> /\ Len(handled) < MaxMessages)
          => ENABLED publish

\* C17 witness: a message failed in its callback and a later message on
\* another subject was handled without error
C17_Witness ==
    \E k, j \in 1..Len(handled) :
        /\ k < j
        /\ handled[k].raised # "none"
        /\ handled[k].caught = handled[k].raised
        /\ handled[j].called
        /\ handled[j].raised = "none"
        /\ handled[j].on # handled[k].on

\* C18: every callback calls handle_event with the subject it was
\* subscribed for and that subject's destination, whatever the order of the
\* subscriptions and whichever route was subscribed last.
C18_HandlerKeepsOwnPair ==
    \A k \in 1..Len(handled) :
        handled[k].called
            => /\ handled[k].subject = handled[k].on
               /\ handled[k].chat_id = routes[handled[k].on]

\* C18 witness: the callback of a route that was not the last one
\* subscribed was invoked
C18_Witness ==
    \E k \in 1..Len(handled) :
        /\ handled[k].called
        /\ rpc = "waiting"
        /\ loop_var[1] # handled[k].on
        /\ handled[k].subject = handled[k].on

\* the chunks of the message that are links, in text order
LinkChunks == { k \in 1..Len(chunks) : chunks[k] \in {"watch", "youtu.be", "shorts"} }

\* the identifier of the link chunk c
ChunkId(c) ==
    CASE c = "watch" -> IdA [] c = "youtu.be" -> IdB [] c = "shorts" -> IdC

\* the identifier of the first link of the message
FirstLinkId == ChunkId(chunks[CHOOSE k \in LinkChunks : \A j \in LinkChunks : k <= j])

\* the request on_admin_message has to publish for identifier id
RequestFor(id, r) ==
    /\ r.subject = "download.request"
    /\ r.video_id = id
    /\ r.url = StrHttps \o StrWww \o StrWatch \o id
    /\ r.requester_chat_id = admin_user_id

IsShape == chunks[4] \in {"watch", "youtu.be", "shorts"}

\* at least 11 characters of the class follow the shape
HasFullId == chunks[5] \in {"A", "B", "C", "long"}

\* C21: the recognizer matches each of the three shapes, with or without
\* scheme and www., alone or inside other text, and extracts exactly the
\* first 11 identifier characters after the shape; a text with none of the
\* shapes, or with fewer than 11 identifier characters, has no match
C21_RecognizerExtractsId ==
    apc = "searched"
        => video_id = (IF IsShape /\ HasFullId
                       THEN SubSeq(TokenText(5, chunks[5]), 1, 11)
                       ELSE <<>>)

\* C21 witness: a shorts link with scheme and www., inside other text and
\* followed by a query, gave the 11 characters of its identifier
C21_Witness ==
    /\ apc = "searched"
    /\ chunks = <<"glued", "http", "www", "shorts", "C", "query">>
    /\ video_id = IdC
    /\ Len(video_id) = 11

\* no call failed except the ones of operation op
OnlyFailed(op) == \A k \in 1..Len(calls) : calls[k].res = "raise" => calls[k].op = op

\* C22 (as claimed): prepare_thumbnail returns without raising, None when
\* the url is missing or the fetch or the transformation failed; a delivery
\* without thumbnail still makes its upload, with thumb=None; every upload
\* call carries the thumbnail path prepare_thumbnail returned.
C22_ThumbnailNeverAborts ==
    /\ pc = "probe" => (exc = "none" /\ outcome = "none")
    /\ \A k \in CallsOf("urlretrieve") : calls[k].res = "raise" => thumb_path = NonePath
    /\ \A k \in SendFileCalls : calls[k].thumb = thumb_path
    /\ (HdcEnded /\ DeliversExistingFile /\ thumb_path = NonePath
           /\ OnlyFailed("urlretrieve"))
         => \E k \in SendFileCalls : calls[k].thumb = NonePath

\* C23 (as claimed): the probers return (None, None) and 0 without raising
\* when they fail, and a delivery whose probes failed still makes an upload
\* call.
C23_ProbeFailureStillUploads ==
    /\ pc = "try" => (exc = "none" /\ outcome = "none")
    /\ (HdcEnded /\ DeliversExistingFile /\ video_dims = <<>> /\ duration_secs = 0
           /\ OnlyFailed("ffprobe"))
         => SendFileCalls # {}

\* C24: a failing os.remove never leaves _safe_remove: no invocation ends
\* with the error of a deletion; after a failed deletion of the source the
\* deletion of the thumbnail is still attempted; the caller observes the
\* exception of the upload when the upload raised and a normal return when
\* it succeeded, whatever the deletions did; _safe_remove(None) touches
\* nothing.
C24_CleanupFailureNeverChangesOutcome ==
    /\ outcome # "OSError" /\ exc # "OSError" /\ caught # "OSError"
    /\ \A k \in CallsOf("os.remove") : ~Falsy(calls[k].path)
    /\ HdcEnded =>
         /\ \A k \in CallsOf("os.remove") :
               (calls[k].res = "raise" /\ calls[k].path = file_path)
                   => RemovedAfter(k, thumb_path)
         /\ \A k \in SourceUploads :
               outcome = (IF calls[k].res = "raise" THEN "TransportError" ELSE "returned")

\* C24 witness: the upload succeeded, the deletion of the source failed, the
\* thumbnail was deleted all the same and the invocation returned normally
C24_Witness ==
    /\ HdcEnded /\ outcome = "returned"
    /\ thumb_path = TmpThumb
    /\ \E k \in CallsOf("os.remove") :
          /\ calls[k].res = "raise" /\ calls[k].path = SrcPath
          /\ \E j \in CallsOf("os.remove") :
                j > k /\ calls[j].path = TmpThumb /\ calls[j].res = "ok"
    /\ fs = {SrcPath}

\* C26: within one delivery send_file is called at most once on the source
\* and at most once on each part; after a send_file call that raised there
\* is no further transport call and no new split; the bridge publishes
\* nothing, so the event is not queued again.
C26_NoRetry ==
    /\ Cardinality(SourceUploads) <= 1
    /\ \A n \in 1..Len(parts) :
         Cardinality({ k \in SendFileCalls : calls[k].path = parts[n] }) <= 1
    /\ \A k \in SendFileCalls : calls[k].res = "raise" =>
         \A j \in 1..Len(calls) :
            j > k => calls[j].op \notin {"send_file", "send_message", "split_video"}
    /\ published = <<>>

\* C26 witness: the only upload raised, the callback caught the exception
\* and the delivery is over with that single send_file call
C26_Witness ==
    /\ pc = "done"
    /\ caught = "TransportError"
    /\ Cardinality(SendFileCalls) = 1
    /\ \E k \in SourceUploads : calls[k].res = "raise"
    /\ published = <<>>

\* C29 (as claimed): a download.complete payload that reports success with
\* the string field status, without the boolean success, is handled as a
\* successful download: no failure notice, and the file check is made.
C29_StatusStringIsSuccess ==
    (HdcEnded /\ subject = "download.complete"
       /\ data.success = <<>> /\ data.status = <<"completed">>)
        => /\ \A k \in NoticeCalls : calls[k].text # "Download failed"
           /\ data.file_path = <<SrcPath>> => SendFileCalls # {} \/ SegmenterInvoked

\* C30 (as claimed): the attributes of a part upload are the part's own
\* probed width, height and duration, each replaced by the whole-file value
\* when the probe of the part gave none.
C30_PartAttributesFallBack ==
    (pc = "loop" /\ i <= Len(parts))
        => \A part_dims \in ProbedDims, part_dur \in ProbedDurations :
             part_attrs(part_dims, part_dur, video_dims, duration_secs)
               = make_video_attributes(Or(Width(part_dims), Width(video_dims)),
                                       Or(Height(part_dims), Height(video_dims)),
                                       Or(part_dur, duration_secs))

\* a key of the payload is missing
Missing(key) == fdata[key] = <<>>

\* C27 (as claimed): the formatters return for every payload, and a missing
\* title, channel and duration are rendered as "Unknown" by each formatter
\* that renders them, a missing view count as "N/A".
C27_DefaultsAreUnknown ==
    fpc = "formatted" =>
        /\ Missing("title") =>
             /\ fout.watch[2] = "Unknown"
             /\ fout.like[2] = "Unknown"
             /\ fout.caption[1] = "Unknown"
        /\ (Missing("channel_title") /\ Missing("channel")) =>
             /\ fout.watch[4] = "Unknown"
             /\ fout.like[4] = "Unknown"
             /\ fout.subscription[2] = "Unknown"
             /\ fout.caption[3] = "Unknown"
        /\ (Missing("duration") /\ Missing("duration_seconds")) =>
             /\ fout.watch[6] = "Unknown"
             /\ fout.like[6] = "Unknown"
             /\ fout.caption[5] = "Unknown"
             /\ fout.duration = "Unknown"
        /\ fcount = <<>> => fout.views = "N/A"

\* C27 (amended): as claimed, except that format_video_caption renders a
\* missing title as "Video".
C27_DefaultsUnknownCaptionVideo ==
    fpc = "formatted" =>
        /\ Missing("title") =>
             /\ fout.watch[2] = "Unknown"
             /\ fout.like[2] = "Unknown"
             /\ fout.caption[1] = "Video"
        /\ (Missing("channel_title") /\ Missing("channel")) =>
             /\ fout.watch[4] = "Unknown"
             /\ fout.like[4] = "Unknown"
             /\ fout.subscription[2] = "Unknown"
             /\ fout.caption[3] = "Unknown"
        /\ (Missing("duration") /\ Missing("duration_seconds")) =>
             /\ fout.watch[6] = "Unknown"
             /\ fout.like[6] = "Unknown"
             /\ fout.caption[5] = "Unknown"
             /\ fout.duration = "Unknown"
        /\ fcount = <<>> => fout.views = "N/A"
        /\ DOMAIN fout = {"watch", "like", "subscription", "caption", "duration", "views"}

\* C27 witness: the empty payload was formatted
C27_Witness ==
    /\ fpc = "formatted"
    /\ \A key \in DOMAIN fdata : Missing(key)
    /\ fcount = <<>>
    /\ fout.watch = << "Watched\n\n", "Unknown", "\nChannel: ", "Unknown",
                       "\nDuration: ", "Unknown",
                       "\n\nhttps://youtube.com/watch?v=", "" >>
    /\ fout.caption = << "Video", " - ", "Unknown", " (", "Unknown", ")" >>
    /\ fout.views = "N/A"

\* the value of a string key, "" when the key is missing
StrOf(key) == IF fdata[key] = <<>> THEN "" ELSE fdata[key][1]

\* C28: in format_watch, format_like and format_video_caption alike the
\* channel is channel_title when present and non-empty, else channel when
\* present and non-empty, else "Unknown"; the duration is the string
\* duration when present and non-empty, else the formatted integer
\* duration_seconds, else "Unknown".
C28_EitherProducerShape ==
    fpc = "formatted" =>
        LET ch == IF StrOf("channel_title") # "" THEN StrOf("channel_title")
                  ELSE IF StrOf("channel") # "" THEN StrOf("channel")
                  ELSE "Unknown"
            du == IF StrOf("duration") # "" THEN StrOf("duration")
                  ELSE IF fdata.duration_seconds \in {<<>>, <<0>>} THEN "Unknown"
                  ELSE IF fdata.duration_seconds = <<90>> THEN "1:30"
                  ELSE "1:01:01"
        IN  /\ fout.watch[4] = ch /\ fout.like[4] = ch /\ fout.caption[3] = ch
            /\ fout.watch[6] = du /\ fout.like[6] = du /\ fout.caption[5] = du

\* C28 witness: a payload of the other producer shape (empty channel_title,
\* channel set, no duration string, duration_seconds set) was formatted
C28_Witness ==
    /\ fpc = "formatted"
    /\ fdata.channel_title = <<"">> /\ fdata.channel = <<"Ch">>
    /\ fdata.duration = <<>> /\ fdata.duration_seconds = <<3661>>
    /\ fout.caption[3] = "Ch" /\ fout.caption[5] = "1:01:01"
    /\ fout.like[4] = "Ch" /\ fout.watch[6] = "1:01:01"

\* C25: of two interleaved invocations with their own file_path, each
\* deletes and uploads only paths of its own (its source, its parts, its
\* thumbnail), and never a path the other invocation refers to.
C25_NoCrossDelete ==
    \A n \in 1..Len(clog) :
        clog[n].op \in {"os.remove", "send_file"}
            => /\ clog[n].path \in clog[n].own
               /\ clog[n].path \notin clog[n].held

\* C25 witness: both invocations had a thumbnail and were in flight at the
\* same time; the second one ended first; each deleted its own two files
C25_Witness ==
    /\ inv[1].pc = "done" /\ inv[2].pc = "done"
    /\ inv[1].thumb_path # NonePath /\ inv[2].thumb_path # NonePath
    /\ inv[1].thumb_path # inv[2].thumb_path
    /\ Len(clog) = 6
    /\ clog[1].op = "send_file" /\ clog[1].by = 1
    /\ clog[2].op = "send_file" /\ clog[2].by = 2
    /\ clog[3].op = "os.remove" /\ clog[3].by = 2 /\ clog[3].path = PairFile(2)
    /\ clog[4].op = "os.remove" /\ clog[4].by = 2 /\ clog[4].path = inv[2].thumb_path
    /\ clog[5].op = "os.remove" /\ clog[5].by = 1 /\ clog[5].path = PairFile(1)
    /\ clog[6].op = "os.remove" /\ clog[6].by = 1 /\ clog[6].path = inv[1].thumb_path
    /\ cfs = {}

\* C34 (as claimed): once the destination is resolved it is the payload's
\* requester_chat_id whenever that key is present, 0 included, and the
\* default destination only when the key is absent.
C34_RequesterZeroIsADestination ==
    (pc \in {"notice_failed", "check_file", "notice_missing", "getsize",
             "thumbnail", "probe", "try", "loop", "finally"} \/ HdcEnded)
        => target_chat = (IF data.requester_chat_id = <<>> THEN chat_id
                          ELSE data.requester_chat_id[1])

\* the file at path exists when call number k is made: it is the source
\* file or a part an ffmpeg run wrote, and no os.remove has deleted it
ExistsAt(k, path) ==
    /\ \/ path = SrcPath
       \/ \E j \in CallsOf("ffmpeg") : j < k /\ calls[j].path = path /\ calls[j].res = "ok"
    /\ ~\E j \in CallsOf("os.remove") : j < k /\ calls[j].path = path /\ calls[j].res = "ok"

\* C36: every send_file call is made on a path that exists at that moment;
\* the source is uploaded only after os.path.exists was called on it.
C36_UploadsOnlyExistingFiles ==
    \A k \in SendFileCalls :
        /\ ExistsAt(k, calls[k].path)
        /\ calls[k].path.part = 0 =>
             \E j \in CallsOf("os.path.exists") : j < k /\ calls[j].path = calls[k].path

\* C36 witness: the source was checked, then uploaded while on disk, in a
\* delivery whose payload also could have named a missing file
C36_Witness ==
    /\ HdcEnded
    /\ \E k \in SourceUploads :
          /\ calls[k].path = SrcPath /\ calls[k].res = "ok"
          /\ \E j \in CallsOf("os.path.exists") : j < k /\ calls[j].path = SrcPath
    /\ SrcPath \notin fs

\* C38 (as claimed): when prepare_thumbnail has returned None no temporary
\* file of it is on disk, and when the invocation has ended no thumbnail
\* temporary file exists (deletions that fail aside).
C38_NoThumbnailFileLeft ==
    /\ (pc \in {"probe", "try", "loop", "finally"} /\ thumb_path = NonePath)
          => TmpThumb \notin fs
    /\ (HdcEnded /\ ~removeFailed) => TmpThumb \notin fs

\* the acknowledgement reached the operator
AckSent == \E k \in 1..Len(replies) : replies[k].res = "ok"

\* the request reached the bus
RequestPublished == \E k \in 1..Len(published) : published[k].res = "ok"

\* C39 (as claimed): when on_admin_message is over, the acknowledgement was
\* sent if and only if the download.request was published, for the same id.
C39_AckAndRequestTogether ==
    apc = "done" =>
        /\ AckSent <=> RequestPublished
        /\ \A k \in 1..Len(published) : \E j \in 1..Len(replies) :
              replies[j].text = AckOf(published[k].video_id)

\* a field of exactly two decimal digits
TwoDigits(n) == ToString(n \div 10) \o ToString(n % 10)

\* text is "M:SS" for seconds: some minutes m and seconds sec < 60 with
\* m*60 + sec = seconds are rendered, sec in two digits
IsMinuteForm(txt, seconds) ==
    \E sec \in 0..59 :
        /\ seconds >= sec
        /\ (seconds - sec) % 60 = 0
        /\ txt = ToString((seconds - sec) \div 60) \o ":" \o TwoDigits(sec)

\* text is "H:MM:SS" for seconds: fields with H*3600 + M*60 + S = seconds,
\* 0 <= M < 60, 0 <= S < 60, M and S in two digits
IsHourForm(txt, seconds) ==
    \E m \in 0..59, sec \in 0..59 :
        /\ seconds >= m * 60 + sec
        /\ (seconds - m * 60 - sec) % 3600 = 0
        /\ txt = ToString((seconds - m * 60 - sec) \div 3600) \o ":"
                    \o TwoDigits(m) \o ":" \o TwoDigits(sec)

\* C32: format_duration gives "Unknown" for 0 and None, "M:SS" below an
\* hour and "H:MM:SS" from an hour on, the fields adding up to the seconds,
\* minutes (hour form) and seconds below 60 and zero-padded to two digits.
C32_DurationFields ==
    fpc = "rendered" =>
        LET seconds == Get(fcount, 0) IN
        IF seconds = 0 THEN fout[1] = "Unknown"
        ELSE IF seconds < 3600 THEN IsMinuteForm(fout[1], seconds)
        ELSE IsHourForm(fout[1], seconds)

\* C32 witness: an hour form with one-digit minutes and seconds was rendered
C32_Witness ==
    fpc = "rendered" /\ fcount = <<3665>> /\ fout = <<"1:01:05">>

\* the ffmpeg runs of split_video, in the order they were made
FfmpegRuns == SelectSeq(calls, LAMBDA c : c.op = "ffmpeg")

\* the total duration split_video read from ffprobe
PrintedTotal ==
    LET k == CHOOSE k \in CallsOf("ffprobe") : calls[k].printed # <<>>
    IN  calls[k].printed[1]

\* fractions <<numerator, denominator>> with positive denominators
FracEq(x, y) == x[1] * y[2] = y[1] * x[2]

FracAdd(x, y) == <<x[1] * y[2] + y[1] * x[2], x[2] * y[2]>>

\* the end of the window [ss, ss + t)
WindowEnd(w) == FracAdd(w.ss, w.t)

\* C33: once split_video has returned, its result is the part paths
\* "<source>.part<k>.mp4" for k = 1..num_parts in ascending order, and the
\* windows requested from ffmpeg have length total/num_parts, the first
\* starts at 0, each next one starts where the one before ends (so they are
\* disjoint and contiguous) and the last ends at the total duration.
C33_WindowsPartitionDuration ==
    (pc = "loop" /\ i = 1) =>
        LET runs == FfmpegRuns
            n == NumParts(srcSize)
            D == PrintedTotal
        IN  /\ Len(runs) = n
            /\ Len(parts) = n
            /\ \A k \in 1..n :
                  /\ parts[k] = [base |-> file_path.base, part |-> k]
                  /\ runs[k].path = parts[k]
                  /\ FracEq(runs[k].window.t, <<D, n>>)
                  /\ FracEq(runs[k].window.ss, <<(k - 1) * D, n>>)
            /\ FracEq(runs[1].window.ss, <<0, 1>>)
            /\ \A k \in 1..(n - 1) :
                  FracEq(WindowEnd(runs[k].window), runs[k + 1].window.ss)
            /\ FracEq(WindowEnd(runs[n].window), <<D, 1>>)

\* C33 witness: three parts of a 7 second video, windows of 7/3 seconds
C33_Witness ==
    /\ pc = "loop" /\ i = 1
    /\ Len(parts) = 3
    /\ PrintedTotal = 7
    /\ Len(FfmpegRuns) = 3
    /\ FfmpegRuns[2].window = [ss |-> <<7, 3>>, t |-> <<7, 3>>]

\* C31 (as claimed): when the ratios differ by less than 0.01 the size is
\* unchanged; otherwise the returned image has positive width and height
\* and its ratio is within 0.02 of target_w / target_h.
C31_CropKeepsRatio ==
    fpc = "cropped" =>
        IF RatiosMatch(fdata.img_w, fdata.img_h, fdata.target_w, fdata.target_h)
        THEN fout = <<fdata.img_w, fdata.img_h>>
        ELSE /\ fout[1] > 0
             /\ fout[2] > 0
             /\ 100 * Abs(fout[1] * fdata.target_h - fdata.target_w * fout[2])
                   <= 2 * fout[2] * fdata.target_h

\* C37 (as claimed): of two deliveries of the same event at most one
\* upload of the video completes, no send_file is called on a file the other
\* invocation has deleted, and no invocation ends with an exception other
\* than the failure of a transport call or of the caption call.
C37_DuplicateUploadsOnce ==
    /\ inv[1].sent + inv[2].sent <= 1
    /\ \A n \in 1..Len(clog) :
          clog[n].op = "send_file" =>
             ~\E j \in 1..(n - 1) : /\ clog[j].op = "os.remove"
                                    /\ clog[j].by = Other(clog[n].by)
                                    /\ clog[j].path = clog[n].path
    /\ \A k \in Invocations : inv[k].exc \in {"none", "TransportError", "TypeError"}

\* the positions in the log of the operation op of task k
LogOf(k, op) == { n \in 1..Len(clog) : clog[n].by = k /\ clog[n].op = op }

\* invocation k made its first operation after the wait was interrupted
StartedAfterInterrupt(k) ==
    /\ LogOf(k, "send_file") \cup LogOf(k, "os.remove") # {}
    /\ \E n \in LogOf(MainTask, "interrupted") :
          \A j \in LogOf(k, "send_file") \cup LogOf(k, "os.remove") : n < j

\* invocation k was awaiting send_file when the wait was interrupted
InFlightAtInterrupt(k) ==
    \E n \in LogOf(MainTask, "interrupted") :
        /\ \E j \in LogOf(k, "send_file") : j < n
        /\ \A j \in LogOf(k, "os.remove") :
              clog[j].path \in {inv[k].file_path, inv[k].thumb_path} => n < j

\* invocation k has called os.remove on path
Removed(k, path) == \E j \in LogOf(k, "os.remove") : clog[j].path = path

\* every invocation that reached its upload is over and has deleted its
\* source file and its thumbnail
UploadsCleaned ==
    \A k \in Invocations :
        LogOf(k, "send_file") # {} =>
            /\ inv[k].pc = "done"
            /\ Removed(k, inv[k].file_path)
            /\ inv[k].thumb_path # NonePath => Removed(k, inv[k].thumb_path)

UploadBounds ==
    /\ Cardinality(SourceUploads) <= 1
    /\ SourceUploads # {} => SendFileCalls = SourceUploads
    /\ Len(parts) \in {0, NumParts(srcSize)}
    /\ Cardinality(SendFileCalls \ SourceUploads) <= Len(parts)
    /\ pc = "loop" => i - 1 <= Len(parts)

\* C40: every invocation of handle_download_complete that has started comes
\* to its end, and at every moment the uploads are within their bounds.
C40_PipelineTerminates ==
    /\ (pc = "hdc") ~> HdcEnded
    /\ []UploadBounds

\* C40 witness: an invocation that went through split_video and the loop
\* has ended
C40_Witness ==
    /\ HdcEnded
    /\ Len(parts) = NumParts(srcSize)
    /\ Len(parts) >= 2
    /\ CallsOf("split_video") # {}

====
